---- MODULE Spec2Model ----
(***************************************************************************)
(* Model of code-sync: the storage backends of server/storage.ts           *)
(* (MemStorage, BlobStorage), the /api/code routes of server/routes.ts and *)
(* the client synchronisation logic of the Home component.                 *)
(*                                                                         *)
(* Spec       : sequential storage and route operations on the shared      *)
(*              document, with the store faults BlobStorage can meet.      *)
(* SpecFiles  : the storage operations on the file catalog.                *)
(* SpecRoutes : the routes on files and their bytes.                       *)
(* SpecUsers  : the storage operations on users.                           *)
(* SpecBlob   : a BlobStorage instance, with or without a token.           *)
(* SpecRace   : concurrent calls on BlobStorage, one step per await.       *)
(* SpecSync   : the clients' debounce/poll protocol against MemStorage.    *)
(* SpecPush   : the debounced pushes of SpecSync, several in flight.       *)
(* SpecBoth   : MemStorage and BlobStorage given the same calls.           *)
(* SpecJSON   : writeBlobJSON and readBlobJSON on each of the three keys.  *)
(* SpecUpload : the browser's handleFileUpload against the file routes.    *)
(* SpecFileRace : concurrent calls on the file catalog, either backend.    *)
(* SpecMemRace : concurrent PUT /api/code requests on MemStorage.          *)
(* SpecSkew   : SpecSync with the browser's clock offset from the server's.*)
(* SpecLookup : GET /objects on catalogs that mix both objectPath formats. *)
(* SpecConverge : two browsers in full, under fairness.                    *)
(***************************************************************************)
EXTENDS Integers, Sequences, FiniteSets, TLC

VARIABLES
    token,          \* process.env.BLOB_READ_WRITE_TOKEN is set
    backend,        \* "mem" or "blob": the class behind the exported storage
    clock,          \* Date.now(), in ms
    nextUUID,       \* number of randomUUID() draws so far
    sharedCodeData, \* MemStorage.sharedCodeData ({} is null)
    sharedFiles,    \* MemStorage.sharedFiles, a Map in insertion order
    blobCode,       \* blob store: the objects whose pathname starts with shared-code.json
    blobFiles,      \* blob store: the objects whose pathname starts with shared-files.json
    users,          \* MemStorage.users, a Map in insertion order
    blobUsers,      \* blob store: the objects whose pathname starts with users.json
    blobBytes,      \* blob store: the urls of the uploaded files' bytes
    procs,          \* the storage calls in progress, each at one of its awaits
    last,           \* history: the last storage/route operation, its input and result
    content,        \* per client: useState content
    language,       \* per client: useState language
    lastEditTime,   \* per client: useRef lastEditTime
    sharedCode,     \* per client: useQuery data ({} is undefined)
    timer,          \* per client: the pending debounce setTimeout ({} or {deadline})
    getResp,        \* per client: the GET /api/code response in flight ({} or {doc})
    puts,           \* per client: the PUT /api/code bodies in flight
    lastChange,     \* history, per client: when content or language last changed
    lastKey,        \* history, per client: when the user last typed ({} is never)
    pulled,         \* history, per client: a pull overwrote the local state and the
                    \* user has not edited since
    skew,           \* per client: the browser's Date.now() minus the server's
    edits,          \* history: the number of user edits so far
    ev              \* history: the last client event

storeVars == <<token, backend, clock, nextUUID, sharedCodeData, sharedFiles,
               blobCode, blobFiles, users, blobUsers, blobBytes, procs, last>>
syncVars == <<content, language, lastEditTime, sharedCode, timer, getResp,
              puts, lastChange, lastKey, pulled, skew, edits, ev>>
vars == <<storeVars, syncVars>>

-----------------------------------------------------------------------------
(* Bounds *)

MaxClock == 1
MaxUUID == 2
MaxInFlight == 1
MaxEdits == 2
MaxBlobUUID == 1

-----------------------------------------------------------------------------
(* JavaScript values *)

\* T | undefined: {} is undefined (or null), {v} is the value v
None == {}
Some(v) == {v}
The(o) == CHOOSE v \in o : TRUE

CoalesceFalsy(o, dflt) == IF o = None \/ The(o) = "" THEN dflt ELSE The(o)

\* a ?? b
Coalesce(o, dflt) == IF o = None THEN dflt ELSE The(o)

\* a || b on strings: the empty string is falsy
OrElse(o, dflt) == IF o = None \/ The(o) = "" THEN dflt ELSE The(o)

\* new Date() is a Date; JSON.stringify writes it as an ISO string with the same ms
DateAt(ms) == <<"Date", ms>>
ISOString(d) == <<"string", d[2]>>
GetTime(d) == d[2]

\* randomUUID(): the n-th draw
UUID(n) == <<"uuid", n>>
DefaultId == <<"default", 0>>

Contents == {"", "a"}
Languages == {"", "python"}
NotAString == "<non-string>"

Opt(S) == {None} \cup {Some(v) : v \in S}

\* UpdateSharedCode / InsertSharedCode: both fields optional strings
Partials == [content : Opt(Contents), language : Opt(Languages)]

\* request bodies of PUT /api/code: a field may also hold a non-string JSON value
Bodies == {[content |-> Some("a"), language |-> None],
           [content |-> None, language |-> Some("python")],
           [content |-> Some(""), language |-> Some("")],
           [content |-> Some(NotAString), language |-> Some("python")],
           [content |-> None, language |-> Some(NotAString)]}

\* arguments of direct createSharedCode calls
CreateDatas == {[content |-> None, language |-> None],
                [content |-> Some("a"), language |-> Some("python")],
                [content |-> Some(""), language |-> Some("")]}

\* InsertSharedFile
FileDatas == {[filename |-> "f.txt", objectPath |-> "/objects/f.txt", fileSize |-> "10"],
              [filename |-> "g.txt", objectPath |-> "https://blob/g.txt", fileSize |-> "20"]}

\* JSON.stringify then JSON.parse of a SharedCode
JSONCode(d) == [d EXCEPT !.updatedAt = ISOString(d.updatedAt)]

\* JSON.stringify then JSON.parse of a SharedFile
JSONFile(f) == [f EXCEPT !.uploadedAt = ISOString(f.uploadedAt)]

-----------------------------------------------------------------------------
(* Map<string, V> and Record<string, V>: entries in insertion order *)

EmptyMap == <<>>
MapHas(m, k) == \E i \in 1..Len(m) : m[i].key = k
MapSetExisting(m, k, v) ==
    [i \in 1..Len(m) |-> IF m[i].key = k THEN [key |-> k, value |-> v] ELSE m[i]]
MapSet(m, k, v) ==
    IF MapHas(m, k)
    THEN [i \in 1..Len(m) |-> IF m[i].key = k THEN [key |-> k, value |-> v] ELSE m[i]]
    ELSE Append(m, [key |-> k, value |-> v])
MapDeleteOthers(m, k) == SelectSeq(m, LAMBDA e : e.key = k)
MapDelete(m, k) == SelectSeq(m, LAMBDA e : e.key # k)
MapValues(m) == [i \in 1..Len(m) |-> m[i].value]
JSONFiles(m) == [i \in 1..Len(m) |-> [key |-> m[i].key, value |-> JSONFile(m[i].value)]]

-----------------------------------------------------------------------------
(* The blob store (@vercel/blob): objects named by pathname = key + suffix *)

SHARED_CODE_KEY == "shared-code.json"
SHARED_FILES_KEY == "shared-files.json"
USERS_KEY == "users.json"

Pathname(key, suffix) == [key |-> key, suffix |-> suffix]

\* list({prefix, limit: 1}): the objects whose pathname starts with prefix, the
\* first one in pathname order only
ListBlobs(objs, prefix) ==
    LET hits == {o \in objs : o.pathname.key = prefix}
    IN  {o \in hits : \A q \in hits : o.pathname.suffix <= q.pathname.suffix}

\* del(urls): an object's url is fixed by its pathname
DelBlobs(objs, listed) == {o \in objs : o.pathname \notin {l.pathname : l \in listed}}

\* put(key, body, {addRandomSuffix: false}): the object named key is replaced
PutBlob(objs, key, body) ==
    {o \in objs : o.pathname # Pathname(key, 0)}
        \cup {[pathname |-> Pathname(key, 0), body |-> body]}

ReadFaults == {"none", "list", "fetch"}
WriteFaults == {"none", "list", "del", "put"}

\* every way a read can go wrong: list throws, fetch throws, the response is
\* not ok, response.json() throws
ReadFaultsFull == ReadFaults \cup {"notok", "parse"}

\* readBlobJSON, the body of its try block: the value it returns, or threw
ReadBlobTry(objs, key, defaultValue, rf) ==
    IF ~token THEN [threw |-> FALSE, value |-> defaultValue]
    ELSE IF rf = "list" THEN [threw |-> TRUE, value |-> defaultValue]
    ELSE LET listed == ListBlobs(objs, key)
         IN  IF listed = {} THEN [threw |-> FALSE, value |-> defaultValue]
             ELSE IF rf = "fetch" THEN [threw |-> TRUE, value |-> defaultValue]
             ELSE IF rf = "notok" THEN [threw |-> FALSE, value |-> defaultValue]
             ELSE IF rf = "parse" THEN [threw |-> TRUE, value |-> defaultValue]
             ELSE [threw |-> FALSE, value |-> The(listed).body]

ReadBlobRethrows(t, defaultValue) == t

\* readBlobJSON, its catch block: return defaultValue
ReadBlobCatch(t, defaultValue) ==
    IF t.threw THEN [threw |-> FALSE, value |-> defaultValue] ELSE t

\* BlobStorage.readBlobJSON(key, defaultValue); rf is the call that fails, if any
ReadBlobOutcome(objs, key, defaultValue, rf) ==
    ReadBlobCatch(ReadBlobTry(objs, key, defaultValue, rf), defaultValue)

\* the value readBlobJSON returns
ReadBlobJSON(objs, key, defaultValue, rf) ==
    ReadBlobOutcome(objs, key, defaultValue, rf).value

\* put(key, body) with a random suffix: a new object each time
PutBlobSuffixed(objs, key, body) ==
    LET used == {o.pathname.suffix : o \in objs}
        fresh == CHOOSE n \in 1..(Cardinality(objs) + 1) : n \notin used
    IN  objs \cup {[pathname |-> Pathname(key, fresh), body |-> body]}

WriteBlobJSONSuffixed(objs, key, data, wf) ==
    IF ~token THEN [objs |-> objs, threw |-> FALSE]
    ELSE IF wf \in {"list", "put"} THEN [objs |-> objs, threw |-> TRUE]
    ELSE [objs |-> PutBlobSuffixed(objs, key, data), threw |-> FALSE]

WriteBlobJSONSwallows(objs, key, data, wf) ==
    IF ~token THEN [objs |-> objs, threw |-> FALSE]
    ELSE IF wf = "list" THEN [objs |-> objs, threw |-> FALSE]
    ELSE LET listed == ListBlobs(objs, key)
         IN  IF listed # {} /\ wf = "del" THEN [objs |-> objs, threw |-> FALSE]
             ELSE LET deleted == DelBlobs(objs, listed)
                  IN  IF wf = "put" THEN [objs |-> deleted, threw |-> FALSE]
                      ELSE [objs |-> PutBlob(deleted, key, data), threw |-> FALSE]

WriteBlobJSONAlways(objs, key, data, wf) ==
    IF wf = "list" THEN [objs |-> objs, threw |-> TRUE]
    ELSE LET listed == ListBlobs(objs, key)
         IN  IF listed # {} /\ wf = "del" THEN [objs |-> objs, threw |-> TRUE]
             ELSE LET deleted == DelBlobs(objs, listed)
                  IN  IF wf = "put" THEN [objs |-> deleted, threw |-> TRUE]
                      ELSE [objs |-> PutBlob(deleted, key, data), threw |-> FALSE]

\* BlobStorage.writeBlobJSON(key, data); wf is the call that fails, if any.
\* The result is the store afterwards and whether the error was thrown.
WriteBlobJSON(objs, key, data, wf) ==
    IF ~token THEN [objs |-> objs, threw |-> FALSE]
    ELSE IF wf = "list" THEN [objs |-> objs, threw |-> TRUE]
    ELSE LET listed == ListBlobs(objs, key)
         IN  IF listed # {} /\ wf = "del" THEN [objs |-> objs, threw |-> TRUE]
             ELSE LET deleted == DelBlobs(objs, listed)
                  IN  IF wf = "put" THEN [objs |-> deleted, threw |-> TRUE]
                      ELSE [objs |-> PutBlob(deleted, key, data), threw |-> FALSE]

-----------------------------------------------------------------------------
(* The shared document: storage operations, as functions of the state *)

NewCode(id, c, l) == [id |-> id, content |-> c, language |-> l, updatedAt |-> DateAt(clock)]

MemGetSharedCodeAbsent == None

\* MemStorage.getSharedCode
MemGetSharedCode == sharedCodeData

\* MemStorage.updateSharedCode on the document code at time now: the document
\* afterwards
MemUpdated(code, data, now) ==
    IF code # None
    THEN [The(code) EXCEPT
            !.content = Coalesce(data.content, The(code).content),
            !.language = Coalesce(data.language, The(code).language),
            !.updatedAt = DateAt(now)]
    ELSE [id |-> DefaultId, content |-> OrElse(data.content, ""),
          language |-> OrElse(data.language, "text"), updatedAt |-> DateAt(now)]

\* MemStorage.updateSharedCode: the document afterwards (also the value returned)
MemUpdateSharedCode(data) == MemUpdated(sharedCodeData, data, clock)

\* MemStorage.createSharedCode
MemCreateSharedCode(data) ==
    NewCode(UUID(nextUUID + 1), Coalesce(data.content, ""), Coalesce(data.language, "text"))

\* BlobStorage.getSharedCode: the body of shared-code.json is Some(document)
BlobGetSharedCode(rf) == ReadBlobJSON(blobCode, SHARED_CODE_KEY, None, rf)

BlobUpdatedCodeFresh(existing, data) ==
    NewCode(UUID(nextUUID + 1), OrElse(data.content, ""), OrElse(data.language, "text"))

\* BlobStorage.updateSharedCode: the document it builds from what it read
BlobUpdatedCode(existing, data) ==
    IF existing # None
    THEN [The(existing) EXCEPT
            !.content = Coalesce(data.content, The(existing).content),
            !.language = Coalesce(data.language, The(existing).language),
            !.updatedAt = DateAt(clock)]
    ELSE NewCode(UUID(nextUUID + 1), OrElse(data.content, ""), OrElse(data.language, "text"))

\* BlobStorage.createSharedCode
BlobCreatedCode(data) ==
    NewCode(UUID(nextUUID + 1), Coalesce(data.content, ""), Coalesce(data.language, "text"))

-----------------------------------------------------------------------------
(* Concurrent calls on BlobStorage: each await of updateSharedCode and of  *)
(* getSharedCode is a step of its own                                      *)

Writers == {"w1", "w2"}
Readers == {"r1"}

\* the partial each concurrent updateSharedCode call is given
RaceData == [w1 |-> [content |-> Some("b"), language |-> None],
             w2 |-> [content |-> None, language |-> Some("text")]]

\* a call that has not started
\* a browser running handleFileUpload
Uploaders == {"u1"}

NoCall == [pc |-> "start", listed |-> {}, existing |-> None, updated |-> None,
           ret |-> None, threw |-> FALSE, file |-> None, uploadURL |-> "",
           call |-> "", data |-> None, status |-> 0]
NoCalls == [p \in Writers \cup Readers \cup Uploaders |-> NoCall]

\* fetch(blobs[0].url): the body now under that url, {} when it answers 404
FetchBlob(objs, listed) ==
    LET found == {o \in objs : o.pathname \in {l.pathname : l \in listed}}
    IN  IF found = {} THEN None ELSE The(found).body

\* what put does when an object already has the pathname
PutOutcomes == {"replace", "reject"}

-----------------------------------------------------------------------------
(* History of the last operation (not program state) *)

NoOp == [op |-> "none", p |-> [content |-> None, language |-> None],
         data |-> [filename |-> "", objectPath |-> "", fileSize |-> ""],
         id |-> DefaultId, pre |-> None, preFiles |-> EmptyMap,
         ret |-> None, files |-> <<>>, ok |-> FALSE, threw |-> FALSE, status |-> 0,
         rf |-> "none", wf |-> "none", prevUpd |-> None, upd |-> None, gone |-> {},
         rf2 |-> "none", bf |-> "none", preBytes |-> {}, path |-> "", served |-> None,
         insertUser |-> [username |-> "", password |-> ""], name |-> "",
         retUser |-> None, preUsers |-> EmptyMap, preObjs |-> {}, df |-> "none",
         prevGot |-> None, got |-> None,
         memRet |-> None, memFiles |-> <<>>, memOk |-> FALSE,
         key |-> "", wrote |-> None, readBack |-> None, follows |-> FALSE,
         file |-> "", made |-> {}]

\* what the backend holds, read without going through the operations
HeldCode == IF backend = "mem" THEN sharedCodeData ELSE UNION {o.body : o \in blobCode}
HeldFiles ==
    IF backend = "mem" THEN sharedFiles
    ELSE IF blobFiles = {} THEN EmptyMap ELSE (CHOOSE o \in blobFiles : TRUE).body

\* the store calls that can fail: none in MemStorage, none without a token
RFaults == IF backend = "blob" /\ token THEN ReadFaults ELSE {"none"}
WFaults == IF backend = "blob" /\ token THEN WriteFaults ELSE {"none"}
\* a read fault and a write fault in one call: once the write has failed, what
\* the read returned no longer shows, so one fault per call covers every outcome
Faults == {f \in RFaults \X WFaults : f[1] = "none" \/ f[2] = "none"}

\* the key of the collection an operation is about, and the objects under it
KeyOf(op) ==
    IF op \in {"getSharedCode", "updateSharedCode", "createSharedCode",
               "GET /api/code", "PUT /api/code"} THEN SHARED_CODE_KEY
    ELSE IF op \in {"getUser", "getUserByUsername", "createUser"} THEN USERS_KEY
    ELSE SHARED_FILES_KEY
\* the objects of the blob store whose pathname starts with key
StoreOf(key) ==
    IF key = SHARED_CODE_KEY THEN blobCode
    ELSE IF key = USERS_KEY THEN blobUsers
    ELSE blobFiles
ObjectsOf(op) == StoreOf(KeyOf(op))

Began(op) == [NoOp EXCEPT !.op = op, !.pre = HeldCode, !.preFiles = HeldFiles,
                          !.prevUpd = last.upd, !.upd = last.upd, !.gone = last.gone,
                          !.preBytes = blobBytes, !.preObjs = ObjectsOf(op),
                          !.prevGot = IF op = "GET /api/code" THEN last.got ELSE None,
                          !.made = last.made]

docUnchanged == UNCHANGED <<sharedCodeData, blobCode, nextUUID>>
filesUnchanged == UNCHANGED <<sharedFiles, blobFiles>>
usersUnchanged == UNCHANGED <<users, blobUsers>>
bytesUnchanged == UNCHANGED blobBytes
envUnchanged == UNCHANGED <<token, backend, clock, procs>> /\ usersUnchanged /\ bytesUnchanged

-----------------------------------------------------------------------------
(* Storage operations on the shared document: the effect of one call, as *)
(* the new store, the value returned and whether the call rejected       *)

\* storage.getSharedCode()
DoGetSharedCode(rf) == IF backend = "mem" THEN MemGetSharedCode ELSE BlobGetSharedCode(rf)

\* MemStorage.updateSharedCode(data) and BlobStorage.updateSharedCode(data)
MemStorage_updateSharedCode(data) ==
    LET updated == MemUpdateSharedCode(data)
    IN  [mem |-> Some(updated), objs |-> blobCode, uuid |-> nextUUID,
         ret |-> Some(updated), threw |-> FALSE]
BlobStorage_updateSharedCode(data, rf, wf) ==
    LET existing == BlobGetSharedCode(rf)
        updated == BlobUpdatedCode(existing, data)
        w == WriteBlobJSON(blobCode, SHARED_CODE_KEY, Some(JSONCode(updated)), wf)
    IN  [mem |-> sharedCodeData, objs |-> w.objs,
         uuid |-> IF existing = None THEN nextUUID + 1 ELSE nextUUID,
         ret |-> IF w.threw THEN None ELSE Some(updated), threw |-> w.threw]

\* storage.updateSharedCode(data)
DoUpdateSharedCode(data, rf, wf) ==
    IF backend = "mem" THEN MemStorage_updateSharedCode(data)
    ELSE BlobStorage_updateSharedCode(data, rf, wf)

\* MemStorage.createSharedCode(data) and BlobStorage.createSharedCode(data)
MemStorage_createSharedCode(data) ==
    LET created == MemCreateSharedCode(data)
    IN  [mem |-> Some(created), objs |-> blobCode, uuid |-> nextUUID + 1,
         ret |-> Some(created), threw |-> FALSE]
BlobStorage_createSharedCode(data, wf) ==
    LET created == BlobCreatedCode(data)
        w == WriteBlobJSON(blobCode, SHARED_CODE_KEY, Some(JSONCode(created)), wf)
    IN  [mem |-> sharedCodeData, objs |-> w.objs, uuid |-> nextUUID + 1,
         ret |-> IF w.threw THEN None ELSE Some(created), threw |-> w.threw]

\* storage.createSharedCode(data)
DoCreateSharedCode(data, wf) ==
    IF backend = "mem" THEN MemStorage_createSharedCode(data)
    ELSE BlobStorage_createSharedCode(data, wf)

\* the document variables after a call with effect r
CodeBecomes(r) ==
    /\ r.uuid <= MaxUUID
    /\ sharedCodeData' = r.mem
    /\ blobCode' = r.objs
    /\ nextUUID' = r.uuid

\* a storage read rejected: only a readBlobJSON that throws could make it
ReadThrew(objs, key, defaultValue, rf) ==
    backend = "blob" /\ ReadBlobOutcome(objs, key, defaultValue, rf).threw

GetSharedCode(rf) ==
    /\ last' = [Began("getSharedCode") EXCEPT
                  !.rf = rf, !.ret = DoGetSharedCode(rf),
                  !.threw = ReadThrew(blobCode, SHARED_CODE_KEY, None, rf)]
    /\ docUnchanged /\ filesUnchanged /\ envUnchanged /\ UNCHANGED syncVars

UpdateSharedCode(data, rf, wf) ==
    LET r == DoUpdateSharedCode(data, rf, wf)
    IN  /\ CodeBecomes(r)
        /\ last' = [Began("updateSharedCode") EXCEPT
                      !.p = data, !.rf = rf, !.wf = wf, !.threw = r.threw, !.ret = r.ret,
                      !.upd = IF r.threw THEN last.upd
                              ELSE Some(GetTime(The(r.ret).updatedAt))]
        /\ filesUnchanged /\ envUnchanged /\ UNCHANGED syncVars

CreateSharedCode(data, wf) ==
    LET r == DoCreateSharedCode(data, wf)
    IN  /\ CodeBecomes(r)
        /\ last' = [Began("createSharedCode") EXCEPT
                      !.p = data, !.wf = wf, !.threw = r.threw, !.ret = r.ret]
        /\ filesUnchanged /\ envUnchanged /\ UNCHANGED syncVars

-----------------------------------------------------------------------------
(* Routes on the shared document *)

ZodAccepts(body) == FALSE

\* updateSharedCodeSchema.parse(req.body): a ZodError unless every field that is
\* present is a string
ZodRejects(body) ==
    \/ body.content = Some(NotAString)
    \/ body.language = Some(NotAString)

\* GET /api/code
GetApiCode(rf, wf) ==
    LET code == DoGetSharedCode(rf)
        r == DoCreateSharedCode([content |-> Some(""), language |-> Some("text")], wf)
    IN  /\ IF code = None
           THEN /\ CodeBecomes(r)
                /\ last' = [Began("GET /api/code") EXCEPT
                              !.rf = rf, !.wf = wf, !.threw = r.threw,
                              !.status = IF r.threw THEN 500 ELSE 200,
                              !.ret = IF r.threw THEN None ELSE Some(JSONCode(The(r.ret))),
                              !.got = IF r.threw \/ rf # "none" THEN None
                                      ELSE Some(JSONCode(The(r.ret)))]
           ELSE /\ docUnchanged
                /\ last' = [Began("GET /api/code") EXCEPT
                              !.rf = rf, !.status = 200,
                              !.ret = Some(JSONCode(The(code))),
                              !.got = Some(JSONCode(The(code)))]
        /\ filesUnchanged /\ envUnchanged /\ UNCHANGED syncVars

\* PUT /api/code
PutApiCode(body, rf, wf) ==
    LET r == DoUpdateSharedCode(body, rf, wf)
    IN  /\ IF ZodRejects(body)
           THEN /\ docUnchanged
                /\ last' = [Began("PUT /api/code") EXCEPT !.p = body, !.status = 400]
           ELSE /\ CodeBecomes(r)
                /\ last' = [Began("PUT /api/code") EXCEPT
                              !.p = body, !.rf = rf, !.wf = wf, !.threw = r.threw,
                              !.status = IF r.threw THEN 500 ELSE 200,
                              !.ret = IF r.threw THEN None ELSE Some(JSONCode(The(r.ret))),
                              !.upd = IF r.threw THEN last.upd
                                      ELSE Some(GetTime(The(r.ret).updatedAt))]
        /\ filesUnchanged /\ envUnchanged /\ UNCHANGED syncVars

-----------------------------------------------------------------------------
(* The file catalog *)

NewFileDefaultId(id, data) ==
    [id |-> DefaultId, filename |-> data.filename, objectPath |-> data.objectPath,
     fileSize |-> data.fileSize, uploadedAt |-> DateAt(clock)]

NewFile(id, data) == [id |-> id, filename |-> data.filename, objectPath |-> data.objectPath,
                      fileSize |-> data.fileSize, uploadedAt |-> DateAt(clock)]

\* the key a new record is stored under: sharedFiles.set(id, ...) / files[id] = ...
FileKey(file) == file.id

\* BlobStorage: the catalog read from shared-files.json
BlobReadFiles(rf) == ReadBlobJSON(blobFiles, SHARED_FILES_KEY, EmptyMap, rf)

\* storage.getSharedFiles()
DoGetSharedFiles(rf) ==
    IF backend = "mem" THEN MapValues(sharedFiles) ELSE MapValues(BlobReadFiles(rf))

\* MemStorage.createSharedFile(data) and BlobStorage.createSharedFile(data)
MemStorage_createSharedFile(data) ==
    LET file == NewFile(UUID(nextUUID + 1), data)
    IN  [mem |-> MapSet(sharedFiles, FileKey(file), file), objs |-> blobFiles,
         ret |-> Some(file), threw |-> FALSE]
BlobStorage_createSharedFile(data, rf, wf) ==
    LET file == NewFile(UUID(nextUUID + 1), data)
        files == MapSet(BlobReadFiles(rf), FileKey(file), file)
        w == WriteBlobJSON(blobFiles, SHARED_FILES_KEY, JSONFiles(files), wf)
    IN  [mem |-> sharedFiles, objs |-> w.objs,
         ret |-> IF w.threw THEN None ELSE Some(file), threw |-> w.threw]

\* storage.createSharedFile(data)
DoCreateSharedFile(data, rf, wf) ==
    IF backend = "mem" THEN MemStorage_createSharedFile(data)
    ELSE BlobStorage_createSharedFile(data, rf, wf)

\* MemStorage.deleteSharedFile(id) and BlobStorage.deleteSharedFile(id)
MemStorage_deleteSharedFile(id) ==
    [mem |-> MapDelete(sharedFiles, id), objs |-> blobFiles,
     ok |-> MapHas(sharedFiles, id), threw |-> FALSE]
BlobStorage_deleteSharedFile(id, rf, wf) ==
    LET files == MapDelete(BlobReadFiles(rf), id)
        w == WriteBlobJSON(blobFiles, SHARED_FILES_KEY, JSONFiles(files), wf)
    IN  [mem |-> sharedFiles, objs |-> w.objs, ok |-> ~w.threw, threw |-> w.threw]

\* storage.deleteSharedFile(id)
DoDeleteSharedFile(id, rf, wf) ==
    IF backend = "mem" THEN MemStorage_deleteSharedFile(id)
    ELSE BlobStorage_deleteSharedFile(id, rf, wf)

GetSharedFiles(rf) ==
    /\ last' = [Began("getSharedFiles") EXCEPT
                  !.rf = rf, !.files = DoGetSharedFiles(rf),
                  !.threw = ReadThrew(blobFiles, SHARED_FILES_KEY, EmptyMap, rf)]
    /\ docUnchanged /\ filesUnchanged /\ envUnchanged /\ UNCHANGED syncVars

CreateSharedFile(data, rf, wf) ==
    LET r == DoCreateSharedFile(data, rf, wf)
    IN  /\ nextUUID < MaxUUID
        /\ nextUUID' = nextUUID + 1
        /\ sharedFiles' = r.mem
        /\ blobFiles' = r.objs
        /\ last' = [Began("createSharedFile") EXCEPT
                      !.data = data, !.rf = rf, !.wf = wf, !.threw = r.threw, !.ret = r.ret]
        /\ UNCHANGED <<sharedCodeData, blobCode>> /\ envUnchanged /\ UNCHANGED syncVars

DeleteSharedFile(id, rf, wf) ==
    LET r == DoDeleteSharedFile(id, rf, wf)
    IN  /\ sharedFiles' = r.mem
        /\ blobFiles' = r.objs
        /\ last' = [Began("deleteSharedFile") EXCEPT
                      !.id = id, !.rf = rf, !.wf = wf, !.threw = r.threw, !.ok = r.ok,
                      !.gone = IF r.ok /\ MapHas(HeldFiles, id)
                               THEN last.gone \cup {id} ELSE last.gone]
        /\ docUnchanged /\ envUnchanged /\ UNCHANGED syncVars

-----------------------------------------------------------------------------
(* The two backends side by side: one MemStorage and one BlobStorage with a *)
(* token are given the same calls; the store meets no fault                *)

Max(a, b) == IF a >= b THEN a ELSE b

BothGetSharedCode ==
    /\ last' = [Began("getSharedCode") EXCEPT
                  !.ret = BlobGetSharedCode("none"), !.memRet = MemGetSharedCode]
    /\ docUnchanged /\ filesUnchanged /\ envUnchanged /\ UNCHANGED syncVars

BothUpdateSharedCode(data) ==
    LET m == MemStorage_updateSharedCode(data)
        b == BlobStorage_updateSharedCode(data, "none", "none")
    IN  /\ Max(m.uuid, b.uuid) <= MaxUUID
        /\ sharedCodeData' = m.mem
        /\ blobCode' = b.objs
        /\ nextUUID' = Max(m.uuid, b.uuid)
        /\ last' = [Began("updateSharedCode") EXCEPT
                      !.p = data, !.ret = b.ret, !.memRet = m.ret]
        /\ filesUnchanged /\ envUnchanged /\ UNCHANGED syncVars

BothCreateSharedCode(data) ==
    LET m == MemStorage_createSharedCode(data)
        b == BlobStorage_createSharedCode(data, "none")
    IN  /\ Max(m.uuid, b.uuid) <= MaxUUID
        /\ sharedCodeData' = m.mem
        /\ blobCode' = b.objs
        /\ nextUUID' = Max(m.uuid, b.uuid)
        /\ last' = [Began("createSharedCode") EXCEPT
                      !.p = data, !.ret = b.ret, !.memRet = m.ret]
        /\ filesUnchanged /\ envUnchanged /\ UNCHANGED syncVars

BothGetSharedFiles ==
    /\ last' = [Began("getSharedFiles") EXCEPT
                  !.files = MapValues(BlobReadFiles("none")),
                  !.memFiles = MapValues(sharedFiles)]
    /\ docUnchanged /\ filesUnchanged /\ envUnchanged /\ UNCHANGED syncVars

BothCreateSharedFile(data) ==
    LET m == MemStorage_createSharedFile(data)
        b == BlobStorage_createSharedFile(data, "none", "none")
    IN  /\ nextUUID < MaxUUID
        /\ nextUUID' = nextUUID + 1
        /\ sharedFiles' = m.mem
        /\ blobFiles' = b.objs
        /\ last' = [Began("createSharedFile") EXCEPT
                      !.data = data, !.ret = b.ret, !.memRet = m.ret]
        /\ UNCHANGED <<sharedCodeData, blobCode>> /\ envUnchanged /\ UNCHANGED syncVars

BothDeleteSharedFile(id) ==
    LET m == MemStorage_deleteSharedFile(id)
        b == BlobStorage_deleteSharedFile(id, "none", "none")
    IN  /\ sharedFiles' = m.mem
        /\ blobFiles' = b.objs
        /\ last' = [Began("deleteSharedFile") EXCEPT
                      !.id = id, !.ok = b.ok, !.memOk = m.ok]
        /\ docUnchanged /\ envUnchanged /\ UNCHANGED syncVars

-----------------------------------------------------------------------------
(* The users *)

\* InsertUser
InsertUsers == {[username |-> "u", password |-> "p"],
                [username |-> "u", password |-> "q"],
                [username |-> "v", password |-> "p"]}
Usernames == {"u", "v"}

\* { ...insertUser, id }
NewUser(id, insertUser) ==
    [id |-> id, username |-> insertUser.username, password |-> insertUser.password]

\* Map.get(k) / record[k]
MapGet(m, k) ==
    LET hits == {i \in 1..Len(m) : m[i].key = k}
    IN  IF hits = {} THEN None ELSE Some(m[CHOOSE i \in hits : TRUE].value)

\* Array.prototype.find: the first of the elements, at the indexes hits, that
\* satisfy the test; {} when there is none
FirstOf(seq, hits) ==
    IF hits = {} THEN None
    ELSE Some(seq[CHOOSE i \in hits : \A j \in hits : i <= j])

\* BlobStorage: the users read from users.json
BlobReadUsers(rf) == ReadBlobJSON(blobUsers, USERS_KEY, EmptyMap, rf)

HeldUsers ==
    IF backend = "mem" THEN users
    ELSE IF blobUsers = {} THEN EmptyMap ELSE (CHOOSE o \in blobUsers : TRUE).body

\* storage.getUser(id)
DoGetUser(id, rf) ==
    IF backend = "mem" THEN MapGet(users, id) ELSE MapGet(BlobReadUsers(rf), id)

\* storage.getUserByUsername(username)
DoGetUserByUsername(username, rf) ==
    LET all == MapValues(IF backend = "mem" THEN users ELSE BlobReadUsers(rf))
    IN  FirstOf(all, {i \in 1..Len(all) : all[i].username = username})

\* storage.createUser(insertUser)
DoCreateUser(insertUser, rf, wf) ==
    LET user == NewUser(UUID(nextUUID + 1), insertUser)
    IN  IF backend = "mem"
        THEN [mem |-> MapSet(users, user.id, user), objs |-> blobUsers,
              ret |-> Some(user), threw |-> FALSE]
        ELSE LET all == MapSet(BlobReadUsers(rf), user.id, user)
                 w == WriteBlobJSON(blobUsers, USERS_KEY, all, wf)
             IN  [mem |-> users, objs |-> w.objs,
                  ret |-> IF w.threw THEN None ELSE Some(user), threw |-> w.threw]

BeganUser(op) == [Began(op) EXCEPT !.preUsers = HeldUsers]

GetUser(id, rf) ==
    /\ last' = [BeganUser("getUser") EXCEPT
                  !.id = id, !.rf = rf, !.retUser = DoGetUser(id, rf),
                  !.threw = ReadThrew(blobUsers, USERS_KEY, EmptyMap, rf)]
    /\ docUnchanged /\ filesUnchanged /\ envUnchanged /\ UNCHANGED syncVars

GetUserByUsername(username, rf) ==
    /\ last' = [BeganUser("getUserByUsername") EXCEPT
                  !.name = username, !.rf = rf,
                  !.retUser = DoGetUserByUsername(username, rf),
                  !.threw = ReadThrew(blobUsers, USERS_KEY, EmptyMap, rf)]
    /\ docUnchanged /\ filesUnchanged /\ envUnchanged /\ UNCHANGED syncVars

CreateUser(insertUser, rf, wf) ==
    LET r == DoCreateUser(insertUser, rf, wf)
    IN  /\ nextUUID < MaxUUID
        /\ nextUUID' = nextUUID + 1
        /\ users' = r.mem
        /\ blobUsers' = r.objs
        /\ last' = [BeganUser("createUser") EXCEPT
                      !.insertUser = insertUser, !.rf = rf, !.wf = wf,
                      !.threw = r.threw, !.retUser = r.ret,
                      !.made = last.made \cup r.ret]
        /\ UNCHANGED <<sharedCodeData, blobCode>> /\ filesUnchanged /\ bytesUnchanged
        /\ UNCHANGED <<token, backend, clock, procs>> /\ UNCHANGED syncVars

-----------------------------------------------------------------------------
(* The uploaded bytes (server/objectStorage.ts) and the routes on files *)

Filenames == {"g.txt"}

\* the url the blob store gives the bytes put under a filename
UrlOf(filename) == "https://blob/" \o filename

ByteFaults == {"none", "del"}
BFaults == IF token THEN ByteFaults ELSE {"none"}

\* ObjectStorageService.uploadFile(filename, fileBuffer)
UploadFile(bytes, filename) ==
    IF ~token THEN [bytes |-> bytes, url |-> None, threw |-> TRUE]
    ELSE [bytes |-> bytes \cup {UrlOf(filename)}, url |-> Some(UrlOf(filename)),
          threw |-> FALSE]

\* ObjectStorageService.deleteFile(blobUrl); bf = "del" when del() fails
DeleteFile(bytes, blobUrl, bf) ==
    IF ~token THEN [bytes |-> bytes, threw |-> TRUE]
    ELSE IF bf = "del" THEN [bytes |-> bytes, threw |-> TRUE]
    ELSE [bytes |-> bytes \ {blobUrl}, threw |-> FALSE]

BestEffortPropagates(d) == d

\* try { await deleteFile(...) } catch (e) { console.error(...) }: the error is dropped
BestEffort(d) == [d EXCEPT !.threw = FALSE]

\* req.body of POST /api/files/upload: file is the base64 text; "" is a field
\* that is missing or empty
Base64s == {"", "aGk="}
UploadBodies == {[filename |-> n, file |-> b] : n \in Filenames \cup {""}, b \in Base64s}

\* POST /api/files/upload: what the handler does to the server; served is the
\* uploadURL of its answer
FilesUploadHandled(body) ==
    LET u == UploadFile(blobBytes, body.filename)
    IN  /\ IF body.filename = "" \/ body.file = ""
           THEN /\ bytesUnchanged
                /\ last' = [Began("POST /api/files/upload") EXCEPT
                              !.name = body.filename, !.file = body.file, !.status = 400]
           ELSE /\ blobBytes' = u.bytes
                /\ last' = [Began("POST /api/files/upload") EXCEPT
                              !.name = body.filename, !.file = body.file,
                              !.threw = u.threw, !.status = IF u.threw THEN 500 ELSE 200,
                              !.served = u.url]
        /\ docUnchanged /\ filesUnchanged /\ usersUnchanged
        /\ UNCHANGED <<token, backend, clock>> /\ UNCHANGED syncVars

PostFilesUpload(body) == FilesUploadHandled(body) /\ UNCHANGED procs

\* req.body of POST /api/files: a field is missing from the last one
FileBodies == {[fileURL |-> "/objects/f.txt", filename |-> "f.txt", fileSize |-> "10"],
               [fileURL |-> "https://blob/g.txt", filename |-> "g.txt", fileSize |-> "20"],
               [fileURL |-> "", filename |-> "h.txt", fileSize |-> "30"]}

\* POST /api/files: what the handler does to the server
ApiFilesHandled(body, rf, wf) ==
    LET validatedData == [filename |-> body.filename, objectPath |-> body.fileURL,
                          fileSize |-> body.fileSize]
        r == DoCreateSharedFile(validatedData, rf, wf)
    IN  /\ IF body.fileURL = "" \/ body.filename = "" \/ body.fileSize = ""
           THEN /\ filesUnchanged /\ UNCHANGED nextUUID
                /\ last' = [Began("POST /api/files") EXCEPT !.status = 400]
           ELSE /\ nextUUID < MaxUUID
                /\ nextUUID' = nextUUID + 1
                /\ sharedFiles' = r.mem
                /\ blobFiles' = r.objs
                /\ last' = [Began("POST /api/files") EXCEPT
                              !.data = validatedData, !.rf = rf, !.wf = wf,
                              !.threw = r.threw, !.ret = r.ret,
                              !.status = IF r.threw THEN 500 ELSE 200]
        /\ UNCHANGED <<sharedCodeData, blobCode>> /\ usersUnchanged /\ bytesUnchanged
        /\ UNCHANGED <<token, backend, clock>> /\ UNCHANGED syncVars

PostApiFiles(body, rf, wf) == ApiFilesHandled(body, rf, wf) /\ UNCHANGED procs

\* String.prototype.endsWith / startsWith
EndsWith(str, suffix) ==
    \/ suffix = ""
    \/ /\ Len(suffix) <= Len(str)
       /\ SubSeq(str, Len(str) - Len(suffix) + 1, Len(str)) = suffix
StartsWith(str, prefix) ==
    \/ prefix = ""
    \/ Len(prefix) <= Len(str) /\ SubSeq(str, 1, Len(prefix)) = prefix

\* req.params.objectPath of GET /objects/...
Fragments == {"f.txt", "g.txt", "t", "x.txt", "/objects/f.txt", "blob/g.txt"}

MatchesExactly(f, requestedPath) == f.objectPath = requestedPath

\* the test of files.find in GET /objects
Matches(f, requestedPath) ==
    \/ f.objectPath = requestedPath
    \/ EndsWith(f.objectPath, requestedPath)
    \/ f.objectPath = "/objects/" \o requestedPath

DownloadFaults == {"none", "fetch"}

\* ObjectStorageService.downloadObject(blobUrl, res): the response it sends.
\* fetch throws on a url that is not absolute and when df = "fetch"; it answers
\* not ok when the store has no bytes under the url. Every error ends in the
\* method's own catch, which answers 500.
DownloadObject(blobUrl, df) ==
    IF ~StartsWith(blobUrl, "https://") \/ df = "fetch"
    THEN [status |-> 500, served |-> None]
    ELSE IF blobUrl \notin blobBytes
    THEN [status |-> 500, served |-> None]
    ELSE [status |-> 200, served |-> Some(blobUrl)]

\* GET /objects/:objectPath(*)
GetObjects(requestedPath, rf, df) ==
    LET files == DoGetSharedFiles(rf)
        file == FirstOf(files, {i \in 1..Len(files) : Matches(files[i], requestedPath)})
        d == DownloadObject(The(file).objectPath, df)
    IN  /\ last' = IF file = None
                   THEN [Began("GET /objects") EXCEPT
                           !.path = requestedPath, !.rf = rf, !.status = 404]
                   ELSE [Began("GET /objects") EXCEPT
                           !.path = requestedPath, !.rf = rf, !.df = df,
                           !.status = d.status, !.served = d.served]
        /\ docUnchanged /\ filesUnchanged /\ envUnchanged /\ UNCHANGED syncVars

\* the store calls of one DELETE /api/files/:id that can fail: the catalog read,
\* the bytes' del, and the read and write of deleteSharedFile; at most one fails
RouteFaults ==
    {f \in RFaults \X BFaults \X RFaults \X WFaults :
        Cardinality({i \in 1..4 : f[i] # "none"}) <= 1}

\* DELETE /api/files/:id
DeleteApiFile(id, rf, bf, rf2, wf) ==
    LET files == DoGetSharedFiles(rf)
        file == FirstOf(files, {i \in 1..Len(files) : files[i].id = id})
        b == IF file # None /\ token
             THEN BestEffort(DeleteFile(blobBytes, The(file).objectPath, bf))
             ELSE [bytes |-> blobBytes, threw |-> FALSE]
        r == DoDeleteSharedFile(id, rf2, wf)
    IN  /\ blobBytes' = b.bytes
        /\ IF b.threw
           THEN /\ filesUnchanged
                /\ last' = [Began("DELETE /api/files/:id") EXCEPT
                              !.id = id, !.rf = rf, !.bf = bf, !.threw = TRUE, !.status = 500]
           ELSE /\ sharedFiles' = r.mem
                /\ blobFiles' = r.objs
                /\ last' = [Began("DELETE /api/files/:id") EXCEPT
                              !.id = id, !.rf = rf, !.bf = bf, !.rf2 = rf2, !.wf = wf,
                              !.threw = r.threw, !.ok = r.ok,
                              !.status = IF r.threw THEN 500 ELSE IF r.ok THEN 200 ELSE 404,
                              !.gone = IF r.ok /\ MapHas(HeldFiles, id)
                                       THEN last.gone \cup {id} ELSE last.gone]
        /\ docUnchanged /\ usersUnchanged
        /\ UNCHANGED <<token, backend, clock, procs>> /\ UNCHANGED syncVars

-----------------------------------------------------------------------------
(* The browser's upload: handleFileUpload, a step for each await *)

\* the File the user picked
UploadFiles == {[name |-> "g.txt", size |-> "20", bytes |-> "aGk="],
                [name |-> "h.txt", size |-> "30", bytes |-> "aGV5"]}

\* a request reaches the server and is answered, or fails on the way
Nets == {"ok", "fail"}

\* GET /api/upload/config
UploadConfig == [isVercelBlob |-> token]

\* apiRequest(method, url, data) rejects when the request fails on the way and
\* when the answer is not a 2xx
ApiRequestRejects(net, status) == net = "fail" \/ status \notin 200..299

\* the url of the bytes upload() of @vercel/blob/client has put (addRandomSuffix)
ClientUrlOf(filename) == "https://blob/r-" \o filename

AfterBlobErrorContinues == "save"

\* catch (blobError) { console.error(...); throw blobError }: on to the outer catch
AfterBlobError == "failed"

uploadUnchanged ==
    /\ docUnchanged /\ filesUnchanged /\ usersUnchanged
    /\ UNCHANGED <<token, backend, clock>> /\ UNCHANGED syncVars

\* await apiRequest("GET", "/api/upload/config"); config.isVercelBlob picks the path.
\* A browser starts an upload when its previous one has ended.
UploadStart(p, file, net) ==
    /\ procs[p].pc \in {"start", "done", "failed"}
    /\ procs' = [procs EXCEPT ![p] =
                   [NoCall EXCEPT
                      !.file = Some(file),
                      !.threw = ApiRequestRejects(net, 200),
                      !.pc = IF ApiRequestRejects(net, 200) THEN "failed"
                             ELSE IF UploadConfig.isVercelBlob THEN "blob" ELSE "server"]]
    /\ last' = [Began("GET /api/upload/config") EXCEPT
                  !.status = IF net = "fail" THEN 0 ELSE 200]
    /\ bytesUnchanged /\ uploadUnchanged

\* await upload(file.name, file, {access: 'public', handleUploadUrl: '/api/upload/token'})
UploadToBlob(p, net) ==
    LET file == The(procs[p].file)
        url == ClientUrlOf(file.name)
    IN  /\ procs[p].pc = "blob"
        /\ IF net = "ok"
           THEN /\ blobBytes' = blobBytes \cup {url}
                /\ procs' = [procs EXCEPT ![p].pc = "save", ![p].uploadURL = url,
                                          ![p].ret = Some(url)]
           ELSE /\ bytesUnchanged
                /\ procs' = [procs EXCEPT ![p].pc = AfterBlobError, ![p].threw = TRUE]
        /\ last' = Began("upload")
        /\ uploadUnchanged

\* await apiRequest("POST", "/api/files/upload", {filename, file}); data.uploadURL
UploadToServer(p, net) ==
    LET file == The(procs[p].file)
    IN  /\ procs[p].pc = "server"
        /\ IF net = "ok"
           THEN /\ FilesUploadHandled([filename |-> file.name, file |-> file.bytes])
                /\ procs' = IF ApiRequestRejects(net, last'.status)
                             THEN [procs EXCEPT ![p].pc = "failed", ![p].threw = TRUE]
                             ELSE [procs EXCEPT ![p].pc = "save",
                                                ![p].uploadURL = The(last'.served),
                                                ![p].ret = last'.served]
           ELSE /\ procs' = [procs EXCEPT ![p].pc = "failed", ![p].threw = TRUE]
                /\ last' = Began("POST /api/files/upload")
                /\ bytesUnchanged /\ uploadUnchanged

\* await apiRequest("POST", "/api/files", {fileURL: uploadURL, filename, fileSize})
UploadSave(p, net, rf, wf) ==
    LET file == The(procs[p].file)
        body == [fileURL |-> procs[p].uploadURL, filename |-> file.name,
                 fileSize |-> file.size]
    IN  /\ procs[p].pc = "save"
        /\ IF net = "ok"
           THEN /\ ApiFilesHandled(body, rf, wf)
                /\ procs' = IF ApiRequestRejects(net, last'.status)
                             THEN [procs EXCEPT ![p].pc = "failed", ![p].threw = TRUE]
                             ELSE [procs EXCEPT ![p].pc = "done"]
           ELSE /\ procs' = [procs EXCEPT ![p].pc = "failed", ![p].threw = TRUE]
                /\ last' = [Began("POST /api/files") EXCEPT !.status = 0]
                /\ UNCHANGED nextUUID
                /\ bytesUnchanged /\ uploadUnchanged

-----------------------------------------------------------------------------
(* The server's clock *)

Tick ==
    /\ clock < MaxClock
    /\ clock' = clock + 1
    /\ UNCHANGED <<token, backend, nextUUID, sharedCodeData, sharedFiles, blobCode,
                   blobFiles, procs, last>>
    /\ usersUnchanged /\ bytesUnchanged
    /\ UNCHANGED syncVars

-----------------------------------------------------------------------------
(* The client: the Home component's state, effects and timers *)

\* the browsers modelled in full; every other browser shows as OtherPut
Clients == {"c1"}

GraceMs == 2000
DebounceMs == 1000
TickMs == DebounceMs
MaxTicks == 3

\* Date.now() when the pages load
StartTime == 2 * GraceMs
EndTime == StartTime + MaxTicks * TickMs

\* what the user can type in the textarea and pick in the language selector
TypedContents == {"", "a"}
SelectItems == {"text", "python"}

\* the last event since the clock last moved: its kind and client, and the
\* client's content, language and number of PUTs in flight before it
NoEvent == [kind |-> "none", client |-> "c1", oldContent |-> "", oldLanguage |-> "",
            inFlight |-> 0]

InFlight(c) == Len(puts[c])

Event(kind, c) == [kind |-> kind, client |-> c, oldContent |-> content[c],
                   oldLanguage |-> language[c], inFlight |-> InFlight(c)]

\* Date.now() in browser c
DateNow(c) == clock + skew[c]

PullOverwritesNoGrace(c, doc) == GetTime(doc.updatedAt) > lastEditTime[c]

PullOverwritesEither(c, doc) ==
    \/ DateNow(c) - lastEditTime[c] > GraceMs
    \/ GetTime(doc.updatedAt) > lastEditTime[c]

PullKeepsLocal(c, doc) == FALSE

PullOverwritesLongGrace(c, doc) ==
    /\ DateNow(c) - lastEditTime[c] > 2 * GraceMs
    /\ GetTime(doc.updatedAt) > lastEditTime[c]

\* the pull effect's test: timeSinceLastEdit > 2000 && serverTime > lastEditTime.current
PullOverwrites(c, doc) ==
    LET timeSinceLastEdit == DateNow(c) - lastEditTime[c]
        serverTime == GetTime(doc.updatedAt)
    IN  timeSinceLastEdit > GraceMs /\ serverTime > lastEditTime[c]

ArmedNever(c) == timer[c]

\* the debounce effect: clearTimeout of the previous timer, setTimeout(..., 1000)
Armed(c) == Some(clock + DebounceMs)

DiffersUnchecked(c) == sharedCode[c] # None

\* the debounce callback's test: sharedCode && (content !== sharedCode.content ||
\* language !== sharedCode.language)
Differs(c) ==
    /\ sharedCode[c] # None
    /\ \/ content[c] # The(sharedCode[c]).content
       \/ language[c] # The(sharedCode[c]).language

serverUnchanged == UNCHANGED <<token, backend, nextUUID, sharedCodeData, sharedFiles,
                               blobCode, blobFiles, users, blobUsers, blobBytes, procs, last>>

\* Textarea onChange: setContent(e.target.value); lastEditTime.current = Date.now()
Type(c, v) ==
    /\ v # content[c]
    /\ edits < MaxEdits
    /\ edits' = edits + 1
    /\ content' = [content EXCEPT ![c] = v]
    /\ lastEditTime' = [lastEditTime EXCEPT ![c] = DateNow(c)]
    /\ timer' = [timer EXCEPT ![c] = Armed(c)]
    /\ lastChange' = [lastChange EXCEPT ![c] = clock]
    /\ lastKey' = [lastKey EXCEPT ![c] = Some(clock)]
    /\ pulled' = [pulled EXCEPT ![c] = FALSE]
    /\ ev' = Event("type", c)
    /\ UNCHANGED <<language, sharedCode, getResp, puts, clock, skew>>
    /\ serverUnchanged

\* Select onValueChange={setLanguage}
SelectLanguage(c, l) ==
    /\ l # language[c]
    /\ edits < MaxEdits
    /\ edits' = edits + 1
    /\ language' = [language EXCEPT ![c] = l]
    /\ timer' = [timer EXCEPT ![c] = Armed(c)]
    /\ lastChange' = [lastChange EXCEPT ![c] = clock]
    /\ pulled' = [pulled EXCEPT ![c] = FALSE]
    /\ ev' = Event("select", c)
    /\ UNCHANGED <<content, lastEditTime, lastKey, skew, sharedCode, getResp, puts, clock>>
    /\ serverUnchanged

\* the debounce timer fires: updateCodeMutation.mutate({content, language}),
\* whether or not an earlier mutation is pending
TimerFires(c) ==
    /\ timer[c] # None
    /\ clock >= The(timer[c])
    /\ timer' = [timer EXCEPT ![c] = None]
    /\ IF Differs(c)
       THEN /\ puts' = [puts EXCEPT ![c] =
                          Append(@, [content |-> content[c], language |-> language[c]])]
            /\ ev' = Event("fire", c)
       ELSE /\ puts' = puts
            /\ ev' = Event("idle", c)
    /\ UNCHANGED <<content, language, lastEditTime, lastKey, pulled, skew,
                   lastChange, edits, sharedCode,
                   getResp, clock>>
    /\ serverUnchanged

\* the server answers one of the client's PUT /api/code requests
ServerPut(c, i) ==
    LET body == puts[c][i]
        r == DoUpdateSharedCode([content |-> Some(body.content),
                                 language |-> Some(body.language)], "none", "none")
    IN  /\ i \in 1..Len(puts[c])
        /\ CodeBecomes(r)
        /\ puts' = [puts EXCEPT ![c] = SubSeq(@, 1, i - 1) \o SubSeq(@, i + 1, Len(@))]
        /\ ev' = NoEvent
        /\ UNCHANGED <<content, language, lastEditTime, lastKey, pulled, skew,
                   lastChange, edits, sharedCode,
                       timer, getResp, clock>>
        /\ UNCHANGED <<token, backend, sharedFiles, blobFiles, users, blobUsers, blobBytes,
                       procs, last>>

\* what the other browsers push
OtherBodies == {[content |-> "b", language |-> "python"]}

\* the server answers a PUT /api/code of another browser
OtherPut(body) ==
    LET r == DoUpdateSharedCode([content |-> Some(body.content),
                                 language |-> Some(body.language)], "none", "none")
    IN  /\ CodeBecomes(r)
        /\ ev' = NoEvent
        /\ UNCHANGED <<content, language, lastEditTime, lastKey, pulled, skew,
                   lastChange, edits, sharedCode,
                       timer, getResp, puts, clock>>
        /\ UNCHANGED <<token, backend, sharedFiles, blobFiles, users, blobUsers, blobBytes,
                       procs, last>>

\* a PUT fails on the way (onError: a toast)
PutFails(c, i) ==
    /\ i \in 1..Len(puts[c])
    /\ puts' = [puts EXCEPT ![c] = SubSeq(@, 1, i - 1) \o SubSeq(@, i + 1, Len(@))]
    /\ ev' = NoEvent
    /\ UNCHANGED <<content, language, lastEditTime, lastKey, pulled, skew,
                   lastChange, edits, sharedCode,
                   timer, getResp, clock>>
    /\ serverUnchanged

\* useQuery fetches /api/code (every 3 s, on invalidateQueries, on Refresh):
\* the server runs GET /api/code and the response is on its way
Refetch(c) ==
    LET code == DoGetSharedCode("none")
        r == DoCreateSharedCode([content |-> Some(""), language |-> Some("text")], "none")
    IN  /\ getResp[c] = None
        /\ IF code = None
           THEN /\ CodeBecomes(r)
                /\ getResp' = [getResp EXCEPT ![c] = Some(JSONCode(The(r.ret)))]
           ELSE /\ UNCHANGED <<sharedCodeData, blobCode, nextUUID>>
                /\ getResp' = [getResp EXCEPT ![c] = Some(JSONCode(The(code)))]
        /\ ev' = NoEvent
        /\ UNCHANGED <<content, language, lastEditTime, lastKey, pulled, skew,
                   lastChange, edits, sharedCode,
                       timer, puts, clock>>
        /\ UNCHANGED <<token, backend, sharedFiles, blobFiles, users, blobUsers, blobBytes,
                       procs, last>>

\* the response arrives. Data equal to the data held keeps its identity, so no
\* effect runs; new data runs the pull effect and then the debounce effect.
Deliver(c) ==
    LET doc == The(getResp[c])
    IN  /\ getResp[c] # None
        /\ getResp' = [getResp EXCEPT ![c] = None]
        /\ IF sharedCode[c] = Some(doc)
           THEN /\ UNCHANGED <<sharedCode, content, language, timer, lastChange, pulled>>
                /\ ev' = Event("same", c)
           ELSE /\ sharedCode' = [sharedCode EXCEPT ![c] = Some(doc)]
                /\ IF PullOverwrites(c, doc)
                   THEN /\ content' = [content EXCEPT ![c] = doc.content]
                        /\ language' = [language EXCEPT ![c] = doc.language]
                        /\ lastChange' = [lastChange EXCEPT ![c] =
                              IF doc.content # content[c] \/ doc.language # language[c]
                              THEN clock ELSE @]
                        /\ pulled' = [pulled EXCEPT ![c] = TRUE]
                   ELSE UNCHANGED <<content, language, lastChange, pulled>>
                /\ timer' = [timer EXCEPT ![c] = Armed(c)]
                /\ ev' = Event("pull", c)
        /\ UNCHANGED <<lastEditTime, lastKey, skew, edits, puts, clock>>
        /\ serverUnchanged

\* time passes
TickSync ==
    /\ clock < EndTime
    /\ clock' = clock + TickMs
    /\ ev' = NoEvent
    /\ UNCHANGED <<content, language, lastEditTime, lastKey, pulled, skew,
                   lastChange, edits, sharedCode,
                   timer, getResp, puts>>
    /\ serverUnchanged

-----------------------------------------------------------------------------
(* Spec: one server process; the backend is chosen once, by the token *)

SyncIdle ==
    /\ content = [c \in Clients |-> ""]
    /\ language = [c \in Clients |-> "text"]
    /\ lastEditTime = [c \in Clients |-> 0]
    /\ sharedCode = [c \in Clients |-> None]
    /\ getResp = [c \in Clients |-> None]
    /\ puts = [c \in Clients |-> <<>>]
    /\ lastChange = [c \in Clients |-> 0]
    /\ lastKey = [c \in Clients |-> None]
    /\ pulled = [c \in Clients |-> FALSE]
    /\ skew = [c \in Clients |-> 0]
    /\ edits = 0
    /\ ev = NoEvent

StoreEmpty ==
    /\ nextUUID = 0
    /\ sharedCodeData = None
    /\ sharedFiles = EmptyMap
    /\ blobCode = {}
    /\ blobFiles = {}
    /\ users = EmptyMap
    /\ blobUsers = {}
    /\ blobBytes = {}
    /\ procs = NoCalls
    /\ last = NoOp

\* export const storage = process.env.BLOB_READ_WRITE_TOKEN ? new BlobStorage() : new MemStorage()
Init ==
    /\ token \in BOOLEAN
    /\ backend = IF token THEN "blob" ELSE "mem"
    /\ clock = 0
    /\ StoreEmpty
    /\ SyncIdle
    /\ timer = [c \in Clients |-> None]

UUIDs == {UUID(n) : n \in 1..MaxUUID}

Next ==
    \/ Tick
    \/ \E rf \in RFaults : GetSharedCode(rf)
    \/ \E data \in Partials, f \in Faults : UpdateSharedCode(data, f[1], f[2])
    \/ \E data \in CreateDatas, wf \in WFaults : CreateSharedCode(data, wf)
    \/ \E f \in Faults : GetApiCode(f[1], f[2])
    \/ \E body \in Bodies, f \in Faults : PutApiCode(body, f[1], f[2])

Spec == Init /\ [][Next]_vars

\* SpecFiles: the same process, the operations on the file catalog
NextFiles ==
    \/ Tick
    \/ \E rf \in RFaults : GetSharedFiles(rf)
    \/ \E data \in FileDatas, f \in Faults : CreateSharedFile(data, f[1], f[2])
    \/ \E id \in UUIDs, f \in Faults : DeleteSharedFile(id, f[1], f[2])

SpecFiles == Init /\ [][NextFiles]_vars

\* SpecBlob: an instance of the exported class BlobStorage, with or without a
\* token, on a blob store that may hold what an earlier process wrote
PriorCode == [id |-> UUID(0), content |-> "a", language |-> "python",
              updatedAt |-> ISOString(DateAt(0))]
PriorFile == [id |-> UUID(0), filename |-> "f.txt", objectPath |-> "/objects/f.txt",
              fileSize |-> "10", uploadedAt |-> ISOString(DateAt(0))]
PriorUser == [id |-> UUID(0), username |-> "u", password |-> "p"]

PriorObject(key, body) == [pathname |-> Pathname(key, 0), body |-> body]

InitBlob ==
    /\ token \in BOOLEAN
    /\ backend = "blob"
    /\ clock = 0
    /\ nextUUID = 0
    /\ sharedCodeData = None
    /\ sharedFiles = EmptyMap
    /\ users = EmptyMap
    /\ blobBytes = {}
    /\ procs = NoCalls
    /\ blobCode \in {{}, {PriorObject(SHARED_CODE_KEY, Some(PriorCode))}}
    /\ blobFiles \in {{}, {PriorObject(SHARED_FILES_KEY,
                                       <<[key |-> PriorFile.id, value |-> PriorFile]>>)}}
    /\ blobUsers \in {{}, {PriorObject(USERS_KEY,
                                       <<[key |-> PriorUser.id, value |-> PriorUser]>>)}}
    /\ last = NoOp
    /\ SyncIdle
    /\ timer = [c \in Clients |-> None]

RFaultsFull == IF backend = "blob" /\ token THEN ReadFaultsFull ELSE {"none"}

BlobPartials == {[content |-> Some("b"), language |-> None]}
BlobCreateDatas == {[content |-> Some(""), language |-> Some("text")]}
BlobFileDatas == {[filename |-> "g.txt", objectPath |-> "https://blob/g.txt",
                   fileSize |-> "20"]}
BlobInsertUsers == {[username |-> "v", password |-> "p"]}
BlobIds == {UUID(n) : n \in 0..1}

NextBlob ==
    \/ \E rf \in RFaultsFull : GetSharedCode(rf)
    \/ \E data \in BlobPartials, f \in Faults :
          UpdateSharedCode(data, f[1], f[2]) /\ nextUUID' <= MaxBlobUUID
    \/ \E data \in BlobCreateDatas, wf \in WFaults :
          CreateSharedCode(data, wf) /\ nextUUID' <= MaxBlobUUID
    \/ \E rf \in RFaultsFull : GetSharedFiles(rf)
    \/ \E data \in BlobFileDatas, f \in Faults :
          CreateSharedFile(data, f[1], f[2]) /\ nextUUID' <= MaxBlobUUID
    \/ \E id \in BlobIds, f \in Faults : DeleteSharedFile(id, f[1], f[2])
    \/ \E id \in BlobIds, rf \in RFaultsFull : GetUser(id, rf)
    \/ \E username \in Usernames, rf \in RFaultsFull : GetUserByUsername(username, rf)
    \/ \E insertUser \in BlobInsertUsers, f \in Faults :
          CreateUser(insertUser, f[1], f[2]) /\ nextUUID' <= MaxBlobUUID

SpecBlob == InitBlob /\ [][NextBlob]_vars

\* SpecJSON: readBlobJSON and writeBlobJSON called one after the other on such
\* a store, with the values BlobStorage gives them
BlobKeys == {SHARED_CODE_KEY, SHARED_FILES_KEY, USERS_KEY}

\* the default each key is read with
DefaultOf(key) == IF key = SHARED_CODE_KEY THEN None ELSE EmptyMap

\* the values written under each key: a SharedCode, a Record of SharedFile, a
\* Record of User
BlobValues(key) ==
    IF key = SHARED_CODE_KEY
    THEN {Some(NewCode(UUID(1), c, "text")) : c \in Contents}
    ELSE IF key = SHARED_FILES_KEY
    THEN {EmptyMap} \cup
         {<<[key |-> UUID(1), value |-> NewFile(UUID(1), data)]>> : data \in BlobFileDatas}
    ELSE {EmptyMap} \cup
         {<<[key |-> UUID(1), value |-> NewUser(UUID(1), u)]>> : u \in BlobInsertUsers}

\* JSON.stringify(data) as response.json() reads it back
JSONStringify(key, data) ==
    IF key = SHARED_CODE_KEY THEN Some(JSONCode(The(data)))
    ELSE IF key = SHARED_FILES_KEY THEN JSONFiles(data)
    ELSE data

\* await this.writeBlobJSON(key, data)
CallWriteBlobJSON(key, data, wf) ==
    LET w == WriteBlobJSON(StoreOf(key), key, JSONStringify(key, data), wf)
    IN  /\ blobCode' = IF key = SHARED_CODE_KEY THEN w.objs ELSE blobCode
        /\ blobFiles' = IF key = SHARED_FILES_KEY THEN w.objs ELSE blobFiles
        /\ blobUsers' = IF key = USERS_KEY THEN w.objs ELSE blobUsers
        /\ last' = [NoOp EXCEPT !.op = "writeBlobJSON", !.key = key, !.wrote = Some(data),
                                !.wf = wf, !.threw = w.threw, !.preObjs = StoreOf(key)]
        /\ UNCHANGED <<token, backend, clock, nextUUID, sharedCodeData, sharedFiles, users,
                       blobBytes, procs>>
        /\ UNCHANGED syncVars

\* await this.readBlobJSON(key, defaultValue); follows tells that the call
\* before it was a writeBlobJSON of the same key, whose record is then kept
CallReadBlobJSON(key, rf) ==
    LET follows == last.op = "writeBlobJSON" /\ last.key = key
        base == IF follows THEN last ELSE [NoOp EXCEPT !.key = key]
    IN  /\ last' = [base EXCEPT
                      !.op = "readBlobJSON", !.rf = rf, !.follows = follows,
                      !.readBack = Some(ReadBlobJSON(StoreOf(key), key, DefaultOf(key), rf))]
        /\ UNCHANGED <<token, backend, clock, nextUUID, sharedCodeData, sharedFiles, users,
                       blobBytes, procs, blobCode, blobFiles, blobUsers>>
        /\ UNCHANGED syncVars

NextJSON ==
    \/ \E key \in BlobKeys, wf \in WFaults : \E data \in BlobValues(key) :
          CallWriteBlobJSON(key, data, wf)
    \/ \E key \in BlobKeys, rf \in RFaultsFull : CallReadBlobJSON(key, rf)

SpecJSON == InitBlob /\ [][NextJSON]_vars

\* SpecUsers: the same process, the operations on users
NextUsers ==
    \/ \E id \in UUIDs, rf \in RFaults : GetUser(id, rf)
    \/ \E username \in Usernames, rf \in RFaults : GetUserByUsername(username, rf)
    \/ \E insertUser \in InsertUsers, f \in Faults : CreateUser(insertUser, f[1], f[2])

SpecUsers == Init /\ [][NextUsers]_vars

\* SpecRace: two updateSharedCode calls and one getSharedCode call run
\* concurrently on a BlobStorage that holds a document
raceUnchanged == UNCHANGED <<token, backend, clock, sharedCodeData, sharedFiles, blobFiles,
                             users, blobUsers, blobBytes, last>>

\* readBlobJSON: await list(...); nothing listed returns the default at once
RaceList(p) ==
    LET listed == ListBlobs(blobCode, SHARED_CODE_KEY)
        updated == BlobUpdatedCode(None, RaceData[p])
    IN  /\ procs[p].pc = "start"
        /\ IF listed # {}
           THEN /\ procs' = [procs EXCEPT ![p].pc = "fetch", ![p].listed = listed]
                /\ UNCHANGED nextUUID
           ELSE IF p \in Readers
           THEN /\ procs' = [procs EXCEPT ![p].pc = "done"]
                /\ UNCHANGED nextUUID
           ELSE /\ procs' = [procs EXCEPT ![p].pc = "wlist", ![p].updated = Some(updated)]
                /\ nextUUID' = nextUUID + 1
        /\ UNCHANGED blobCode /\ raceUnchanged /\ UNCHANGED syncVars

\* readBlobJSON: await fetch(blobs[0].url) and response.json(); an
\* updateSharedCode then builds the document it will write
RaceFetch(p) ==
    LET existing == FetchBlob(blobCode, procs[p].listed)
        updated == BlobUpdatedCode(existing, RaceData[p])
    IN  /\ procs[p].pc = "fetch"
        /\ IF p \in Readers
           THEN /\ procs' = [procs EXCEPT ![p].pc = "done", ![p].ret = existing]
                /\ UNCHANGED nextUUID
           ELSE /\ procs' = [procs EXCEPT ![p].pc = "wlist", ![p].existing = existing,
                                          ![p].updated = Some(updated)]
                /\ nextUUID' = IF existing = None THEN nextUUID + 1 ELSE nextUUID
        /\ UNCHANGED blobCode /\ raceUnchanged /\ UNCHANGED syncVars

\* writeBlobJSON: await list(...)
RaceWriteList(p) ==
    LET listed == ListBlobs(blobCode, SHARED_CODE_KEY)
    IN  /\ procs[p].pc = "wlist"
        /\ procs' = [procs EXCEPT ![p].pc = IF listed # {} THEN "del" ELSE "put",
                                  ![p].listed = listed]
        /\ UNCHANGED <<blobCode, nextUUID>> /\ raceUnchanged /\ UNCHANGED syncVars

\* writeBlobJSON: await del(blobs.map(b => b.url))
RaceDel(p) ==
    /\ procs[p].pc = "del"
    /\ blobCode' = DelBlobs(blobCode, procs[p].listed)
    /\ procs' = [procs EXCEPT ![p].pc = "put"]
    /\ UNCHANGED nextUUID /\ raceUnchanged /\ UNCHANGED syncVars

\* writeBlobJSON: await put(key, jsonString, ...), then updateSharedCode returns
RacePut(p, outcome) ==
    /\ procs[p].pc = "put"
    /\ IF ListBlobs(blobCode, SHARED_CODE_KEY) # {} /\ outcome = "reject"
       THEN /\ procs' = [procs EXCEPT ![p].pc = "done", ![p].threw = TRUE]
            /\ UNCHANGED blobCode
       ELSE /\ blobCode' = PutBlob(blobCode, SHARED_CODE_KEY,
                                   Some(JSONCode(The(procs[p].updated))))
            /\ procs' = [procs EXCEPT ![p].pc = "done", ![p].ret = procs[p].updated]
    /\ UNCHANGED nextUUID /\ raceUnchanged /\ UNCHANGED syncVars

InitRace ==
    /\ token = TRUE
    /\ backend = "blob"
    /\ clock = 0
    /\ nextUUID = 0
    /\ sharedCodeData = None
    /\ sharedFiles = EmptyMap
    /\ users = EmptyMap
    /\ blobBytes = {}
    /\ procs = NoCalls
    /\ blobCode = {PriorObject(SHARED_CODE_KEY, Some(PriorCode))}
    /\ blobFiles = {}
    /\ blobUsers = {}
    /\ last = NoOp
    /\ SyncIdle
    /\ timer = [c \in Clients |-> None]

NextRace ==
    \/ \E p \in Writers \cup Readers : RaceList(p)
    \/ \E p \in Writers \cup Readers : RaceFetch(p)
    \/ \E p \in Writers : RaceWriteList(p)
    \/ \E p \in Writers : RaceDel(p)
    \/ \E p \in Writers, outcome \in PutOutcomes : RacePut(p, outcome)

SpecRace == InitRace /\ [][NextRace]_vars

\* SpecFileRace: two calls on the file catalog run concurrently, on either
\* backend: w1 is a createSharedFile, w2 a createSharedFile or the
\* deleteSharedFile of the record the catalog already holds
FileRaceData == [w1 |-> [filename |-> "g.txt", objectPath |-> "https://blob/g.txt",
                         fileSize |-> "20"],
                 w2 |-> [filename |-> "h.txt", objectPath |-> "https://blob/h.txt",
                         fileSize |-> "30"]]
FileRaceCalls == [w1 |-> {"createSharedFile"},
                  w2 |-> {"createSharedFile", "deleteSharedFile"}]

\* the record an earlier createSharedFile left in the catalog
FileRacePrior == NewFile(UUID(1), [filename |-> "f.txt", objectPath |-> "/objects/f.txt",
                                   fileSize |-> "10"])

fileRaceUnchanged == UNCHANGED <<token, backend, clock, sharedCodeData, blobCode,
                                 users, blobUsers, blobBytes, last>>

\* MemStorage.createSharedFile and MemStorage.deleteSharedFile hold no await:
\* the whole call runs in one turn of the event loop
FileRaceMemAlone(p) ==
    LET r == MemStorage_createSharedFile(FileRaceData[p])
    IN  /\ backend = "mem"
        /\ procs[p].pc = "start"
        /\ IF procs[p].call = "createSharedFile"
           THEN /\ sharedFiles' = <<[key |-> FileKey(The(r.ret)), value |-> The(r.ret)]>>
                /\ nextUUID' = nextUUID + 1
                /\ procs' = [procs EXCEPT ![p].pc = "done", ![p].ret = r.ret]
           ELSE /\ sharedFiles' = MemStorage_deleteSharedFile(FileKey(FileRacePrior)).mem
                /\ UNCHANGED nextUUID
                /\ procs' = [procs EXCEPT ![p].pc = "done"]
        /\ UNCHANGED blobFiles /\ fileRaceUnchanged /\ UNCHANGED syncVars
FileRaceMem(p) ==
    LET r == MemStorage_createSharedFile(FileRaceData[p])
    IN  /\ backend = "mem"
        /\ procs[p].pc = "start"
        /\ IF procs[p].call = "createSharedFile"
           THEN /\ sharedFiles' = r.mem
                /\ nextUUID' = nextUUID + 1
                /\ procs' = [procs EXCEPT ![p].pc = "done", ![p].ret = r.ret]
           ELSE /\ sharedFiles' = MemStorage_deleteSharedFile(FileKey(FileRacePrior)).mem
                /\ UNCHANGED nextUUID
                /\ procs' = [procs EXCEPT ![p].pc = "done"]
        /\ UNCHANGED blobFiles /\ fileRaceUnchanged /\ UNCHANGED syncVars

\* what a BlobStorage call makes of the catalog it read: createSharedFile
\* adds its record under a fresh id, deleteSharedFile deletes the id
FileRaceBuilt(p, files) ==
    LET file == NewFile(UUID(nextUUID + 1), FileRaceData[p])
    IN  IF procs[p].call = "createSharedFile"
        THEN [files |-> JSONFiles(MapSet(files, FileKey(file), file)), ret |-> Some(file)]
        ELSE [files |-> JSONFiles(MapDelete(files, FileKey(FileRacePrior))), ret |-> None]

\* readBlobJSON: await list(...); nothing listed returns the default {} at once
FileRaceList(p) ==
    LET listed == ListBlobs(blobFiles, SHARED_FILES_KEY)
        built == FileRaceBuilt(p, EmptyMap)
    IN  /\ backend = "blob"
        /\ procs[p].pc = "start"
        /\ IF listed # {}
           THEN /\ procs' = [procs EXCEPT ![p].pc = "fetch", ![p].listed = listed]
                /\ UNCHANGED nextUUID
           ELSE /\ procs' = [procs EXCEPT ![p].pc = "wlist", ![p].ret = built.ret,
                                          ![p].updated = Some(built.files)]
                /\ nextUUID' = IF built.ret # None THEN nextUUID + 1 ELSE nextUUID
        /\ UNCHANGED <<sharedFiles, blobFiles>> /\ fileRaceUnchanged /\ UNCHANGED syncVars

\* readBlobJSON: await fetch(blobs[0].url), the default {} when the response
\* is not ok, else response.json(); the call then builds the catalog it
\* will write
FileRaceFetch(p) ==
    LET found == {o \in blobFiles : o.pathname \in {l.pathname : l \in procs[p].listed}}
        files == IF found = {} THEN EmptyMap ELSE The(found).body
        built == FileRaceBuilt(p, files)
    IN  /\ procs[p].pc = "fetch"
        /\ procs' = [procs EXCEPT ![p].pc = "wlist", ![p].ret = built.ret,
                                  ![p].updated = Some(built.files)]
        /\ nextUUID' = IF built.ret # None THEN nextUUID + 1 ELSE nextUUID
        /\ UNCHANGED <<sharedFiles, blobFiles>> /\ fileRaceUnchanged /\ UNCHANGED syncVars

\* writeBlobJSON: await list(...)
FileRaceWriteList(p) ==
    LET listed == ListBlobs(blobFiles, SHARED_FILES_KEY)
    IN  /\ procs[p].pc = "wlist"
        /\ procs' = [procs EXCEPT ![p].pc = IF listed # {} THEN "del" ELSE "put",
                                  ![p].listed = listed]
        /\ UNCHANGED <<sharedFiles, blobFiles, nextUUID>>
        /\ fileRaceUnchanged /\ UNCHANGED syncVars

\* writeBlobJSON: await del(blobs.map(b => b.url))
FileRaceDel(p) ==
    /\ procs[p].pc = "del"
    /\ blobFiles' = DelBlobs(blobFiles, procs[p].listed)
    /\ procs' = [procs EXCEPT ![p].pc = "put"]
    /\ UNCHANGED <<sharedFiles, nextUUID>> /\ fileRaceUnchanged /\ UNCHANGED syncVars

\* writeBlobJSON: await put(key, jsonString, ...), then the call returns
FileRacePut(p, outcome) ==
    /\ procs[p].pc = "put"
    /\ IF ListBlobs(blobFiles, SHARED_FILES_KEY) # {} /\ outcome = "reject"
       THEN /\ procs' = [procs EXCEPT ![p].pc = "done", ![p].threw = TRUE]
            /\ UNCHANGED blobFiles
       ELSE /\ blobFiles' = PutBlob(blobFiles, SHARED_FILES_KEY, The(procs[p].updated))
            /\ procs' = [procs EXCEPT ![p].pc = "done"]
    /\ UNCHANGED <<sharedFiles, nextUUID>> /\ fileRaceUnchanged /\ UNCHANGED syncVars

InitFileRace ==
    /\ token = TRUE
    /\ backend \in {"mem", "blob"}
    /\ clock = 0
    /\ nextUUID = 1
    /\ sharedCodeData = None
    /\ sharedFiles = IF backend = "mem"
                     THEN <<[key |-> FileKey(FileRacePrior), value |-> FileRacePrior]>>
                     ELSE EmptyMap
    /\ users = EmptyMap
    /\ blobBytes = {}
    /\ \E call \in FileRaceCalls["w2"] :
          procs = [NoCalls EXCEPT !["w1"].call = "createSharedFile", !["w2"].call = call]
    /\ blobCode = {}
    /\ blobFiles = IF backend = "blob"
                   THEN {PriorObject(SHARED_FILES_KEY,
                             JSONFiles(<<[key |-> FileKey(FileRacePrior),
                                          value |-> FileRacePrior]>>))}
                   ELSE {}
    /\ blobUsers = {}
    /\ last = NoOp
    /\ SyncIdle
    /\ timer = [c \in Clients |-> None]

NextFileRace ==
    \/ \E p \in Writers : FileRaceMem(p)
    \/ \E p \in Writers : FileRaceList(p)
    \/ \E p \in Writers : FileRaceFetch(p)
    \/ \E p \in Writers : FileRaceWriteList(p)
    \/ \E p \in Writers : FileRaceDel(p)
    \/ \E p \in Writers, outcome \in PutOutcomes : FileRacePut(p, outcome)

SpecFileRace == InitFileRace /\ [][NextFileRace]_vars

\* SpecMemRace: two PUT /api/code requests run concurrently against
\* MemStorage; a handler gives way to the other at its await only
memRaceUnchanged == UNCHANGED <<token, backend, nextUUID, sharedFiles, blobCode, blobFiles,
                                users, blobUsers, blobBytes, last>>

\* the document GET /api/code created before the requests arrive
MemRacePrior == [id |-> UUID(1), content |-> "", language |-> "text",
                 updatedAt |-> DateAt(0)]

\* PUT /api/code up to its await: the body is parsed and
\* MemStorage.updateSharedCode, which holds no await, runs to its return
MemRacePutStale(p, body) ==
    /\ procs[p].pc = "start"
    /\ IF ZodRejects(body)
       THEN /\ procs' = [procs EXCEPT ![p].pc = "done", ![p].status = 400]
            /\ UNCHANGED sharedCodeData
       ELSE /\ sharedCodeData' = Some(MemUpdated(last.pre, body, clock))
            /\ procs' = [procs EXCEPT ![p].pc = "await", ![p].data = Some(body)]
    /\ UNCHANGED clock /\ memRaceUnchanged /\ UNCHANGED syncVars
MemRacePut(p, body) ==
    /\ procs[p].pc = "start"
    /\ IF ZodRejects(body)
       THEN /\ procs' = [procs EXCEPT ![p].pc = "done", ![p].status = 400]
            /\ UNCHANGED sharedCodeData
       ELSE /\ sharedCodeData' = Some(MemUpdateSharedCode(body))
            /\ procs' = [procs EXCEPT ![p].pc = "await", ![p].data = Some(body)]
    /\ UNCHANGED clock /\ memRaceUnchanged /\ UNCHANGED syncVars

\* PUT /api/code after its await: res.json(updatedCode), where updatedCode is
\* the object this.sharedCodeData itself, serialised as it is by then
MemRaceRespond(p) ==
    /\ procs[p].pc = "await"
    /\ procs' = [procs EXCEPT ![p].pc = "done", ![p].status = 200,
                              ![p].ret = Some(JSONCode(The(sharedCodeData)))]
    /\ UNCHANGED <<clock, sharedCodeData>> /\ memRaceUnchanged /\ UNCHANGED syncVars

InitMemRace ==
    /\ token = FALSE
    /\ backend = "mem"
    /\ clock = 0
    /\ \E code \in {None, Some(MemRacePrior)} :
          /\ sharedCodeData = code
          /\ nextUUID = IF code = None THEN 0 ELSE 1
          /\ last = [NoOp EXCEPT !.pre = code]
    /\ sharedFiles = EmptyMap
    /\ blobCode = {}
    /\ blobFiles = {}
    /\ users = EmptyMap
    /\ blobUsers = {}
    /\ blobBytes = {}
    /\ procs = NoCalls
    /\ SyncIdle
    /\ timer = [c \in Clients |-> None]

NextMemRace ==
    \/ Tick
    \/ \E p \in Writers, body \in Partials \cup Bodies : MemRacePut(p, body)
    \/ \E p \in Writers : MemRaceRespond(p)

SpecMemRace == InitMemRace /\ [][NextMemRace]_vars

\* SpecRoutes: the same process, the routes on files
NextRoutes ==
    \/ \E body \in UploadBodies : PostFilesUpload(body)
    \/ \E body \in FileBodies, f \in Faults : PostApiFiles(body, f[1], f[2])
    \/ \E id \in UUIDs, f \in RouteFaults : DeleteApiFile(id, f[1], f[2], f[3], f[4])
    \/ \E requestedPath \in Fragments, rf \in RFaults, df \in DownloadFaults :
          GetObjects(requestedPath, rf, df)

SpecRoutes == Init /\ [][NextRoutes]_vars

\* SpecLookup: GET /objects on catalogs whose records name their bytes in
\* both formats, a relative path and the url of a blob
LookupBodies == {[fileURL |-> "/objects/f.txt", filename |-> "f.txt", fileSize |-> "10"],
                 [fileURL |-> "https://blob/f.txt", filename |-> "f.txt", fileSize |-> "10"],
                 [fileURL |-> "https://blob/g.txt", filename |-> "g.txt", fileSize |-> "20"]}
LookupFragments == {"f.txt", "g.txt", "https://blob/g.txt", "x.txt"}

\* the blob store outlives the server: the bytes the browsers have put there
InitLookup ==
    /\ token = TRUE
    /\ backend = "blob"
    /\ clock = 0
    /\ nextUUID = 0
    /\ sharedCodeData = None
    /\ sharedFiles = EmptyMap
    /\ blobCode = {}
    /\ blobFiles = {}
    /\ users = EmptyMap
    /\ blobUsers = {}
    /\ blobBytes \in SUBSET {"https://blob/f.txt", "https://blob/g.txt"}
    /\ procs = NoCalls
    /\ last = NoOp
    /\ SyncIdle
    /\ timer = [c \in Clients |-> None]

NextLookup ==
    \/ \E body \in LookupBodies : PostApiFiles(body, "none", "none")
    \/ \E requestedPath \in LookupFragments, df \in DownloadFaults :
          GetObjects(requestedPath, "none", df)

SpecLookup == InitLookup /\ [][NextLookup]_vars

\* SpecBoth: a MemStorage and a BlobStorage (with a token) given the same
\* sequence of calls
InitBoth ==
    /\ token = TRUE
    /\ backend = "blob"
    /\ clock = 0
    /\ StoreEmpty
    /\ SyncIdle
    /\ timer = [c \in Clients |-> None]

NextBoth ==
    \/ Tick
    \/ BothGetSharedCode
    \/ \E data \in Partials : BothUpdateSharedCode(data)
    \/ \E data \in CreateDatas : BothCreateSharedCode(data)
    \/ BothGetSharedFiles
    \/ \E data \in FileDatas : BothCreateSharedFile(data)
    \/ \E id \in UUIDs : BothDeleteSharedFile(id)

SpecBoth == InitBoth /\ [][NextBoth]_vars

\* SpecUpload: the same process and a browser uploading files
NextUpload ==
    \/ Tick
    \/ \E p \in Uploaders, file \in UploadFiles, net \in Nets : UploadStart(p, file, net)
    \/ \E p \in Uploaders, net \in Nets : UploadToBlob(p, net)
    \/ \E p \in Uploaders, net \in Nets : UploadToServer(p, net)
    \/ \E p \in Uploaders, net \in Nets, f \in Faults : UploadSave(p, net, f[1], f[2])

SpecUpload == Init /\ [][NextUpload]_vars

\* SpecSync: the browsers and a server on MemStorage; the pages have just mounted
\* (the debounce effect has armed its first timer)
InitSync ==
    /\ token = FALSE
    /\ backend = "mem"
    /\ clock = StartTime
    /\ StoreEmpty
    /\ SyncIdle
    /\ timer = [c \in Clients |-> Some(StartTime + DebounceMs)]

NextSync ==
    \/ TickSync
    \/ \E c \in Clients, v \in TypedContents : Type(c, v)
    \/ \E c \in Clients, l \in SelectItems : SelectLanguage(c, l)
    \/ \E c \in Clients : TimerFires(c) /\ Len(puts'[c]) <= MaxInFlight
    \/ \E c \in Clients, i \in 1..MaxInFlight : ServerPut(c, i)
    \/ \E c \in Clients, i \in 1..MaxInFlight : PutFails(c, i)
    \/ \E body \in OtherBodies : OtherPut(body)
    \/ \E c \in Clients : Refetch(c)
    \/ \E c \in Clients : Deliver(c)

SpecSync == InitSync /\ [][NextSync]_vars

\* SpecPush: one browser typing while its requests are slow; up to MaxPushes of
\* its PUT /api/code requests may be unanswered
MaxPushes == 2

NextPush ==
    \/ TickSync
    \/ \E c \in Clients, v \in TypedContents : Type(c, v)
    \/ \E c \in Clients, l \in SelectItems : SelectLanguage(c, l)
    \/ \E c \in Clients : TimerFires(c) /\ Len(puts'[c]) <= MaxPushes
    \/ \E c \in Clients, i \in 1..MaxPushes : ServerPut(c, i)
    \/ \E c \in Clients : Refetch(c)
    \/ \E c \in Clients : Deliver(c)

SpecPush == InitSync /\ [][NextPush]_vars

\* SpecSkew: SpecSync with a browser whose clock is behind the server's, in
\* step with it, or ahead of it
Skews == {0 - DebounceMs, 0, DebounceMs}

InitSkew ==
    /\ token = FALSE
    /\ backend = "mem"
    /\ clock = StartTime
    /\ StoreEmpty
    /\ content = [c \in Clients |-> ""]
    /\ language = [c \in Clients |-> "text"]
    /\ lastEditTime = [c \in Clients |-> 0]
    /\ sharedCode = [c \in Clients |-> None]
    /\ getResp = [c \in Clients |-> None]
    /\ puts = [c \in Clients |-> <<>>]
    /\ lastChange = [c \in Clients |-> 0]
    /\ lastKey = [c \in Clients |-> None]
    /\ pulled = [c \in Clients |-> FALSE]
    /\ skew \in [Clients -> Skews]
    /\ edits = 0
    /\ ev = NoEvent
    /\ timer = [c \in Clients |-> Some(StartTime + DebounceMs)]

NextSkew ==
    \/ TickSync
    \/ \E c \in Clients : Type(c, "a")
    \/ \E c \in Clients : TimerFires(c) /\ Len(puts'[c]) <= MaxInFlight
    \/ \E c \in Clients, i \in 1..MaxInFlight : ServerPut(c, i)
    \/ \E body \in OtherBodies : OtherPut(body)
    \/ \E c \in Clients : Refetch(c)
    \/ \E c \in Clients : Deliver(c)

SpecSkew == InitSkew /\ [][NextSkew]_vars

\* SpecConverge: two browsers modelled in full against MemStorage, their
\* clocks in step with the server's. The users edit when the pages have
\* loaded and then stop; every request is answered; timers and polls run on.
Browsers == {"c1", "c2"}

\* what each user types
Typing == [c1 |-> "a", c2 |-> "b"]

InitConverge ==
    /\ token = FALSE
    /\ backend = "mem"
    /\ clock = StartTime
    /\ StoreEmpty
    /\ content = [c \in Browsers |-> ""]
    /\ language = [c \in Browsers |-> "text"]
    /\ lastEditTime = [c \in Browsers |-> 0]
    /\ sharedCode = [c \in Browsers |-> None]
    /\ getResp = [c \in Browsers |-> None]
    /\ puts = [c \in Browsers |-> <<>>]
    /\ lastChange = [c \in Browsers |-> 0]
    /\ lastKey = [c \in Browsers |-> None]
    /\ pulled = [c \in Browsers |-> FALSE]
    /\ skew = [c \in Browsers |-> 0]
    /\ edits = 0
    /\ ev = NoEvent
    /\ timer = [c \in Browsers |-> Some(StartTime + DebounceMs)]

\* time passes after EndTime: the timers run down; the clock's reading stays
\* EndTime, which is later than every edit by more than the grace window
TickLate ==
    /\ clock = EndTime
    /\ \E c \in Browsers : timer[c] # None /\ The(timer[c]) > clock
    /\ timer' = [c \in Browsers |->
                    IF timer[c] # None /\ The(timer[c]) > clock THEN Some(clock)
                    ELSE timer[c]]
    /\ ev' = NoEvent
    /\ UNCHANGED <<content, language, lastEditTime, lastKey, pulled, skew,
                   lastChange, edits, sharedCode, getResp, puts, clock>>
    /\ serverUnchanged

\* the user of browser c edits, while the pages have just loaded: both type,
\* the second also picks a language
UserEdits(c) ==
    /\ clock = StartTime
    /\ \/ Type(c, Typing[c])
       \/ c = "c2" /\ SelectLanguage(c, "python")

Pushes(c) == TimerFires(c) /\ Len(puts'[c]) <= MaxInFlight
Answers(c) == \E i \in 1..MaxInFlight : ServerPut(c, i)

NextConverge ==
    \/ TickSync
    \/ TickLate
    \/ \E c \in Browsers : UserEdits(c)
    \/ \E c \in Browsers : Pushes(c)
    \/ \E c \in Browsers : Answers(c)
    \/ \E c \in Browsers : Refetch(c)
    \/ \E c \in Browsers : Deliver(c)

\* time passes, every timer that is due fires, every request is answered and
\* every response delivered, every browser keeps polling
FairConverge ==
    /\ WF_vars(TickSync) /\ WF_vars(TickLate)
    /\ \A c \in Browsers :
          /\ WF_vars(Pushes(c)) /\ WF_vars(Answers(c))
          /\ WF_vars(Refetch(c)) /\ WF_vars(Deliver(c))

SpecConverge == InitConverge /\ [][NextConverge]_vars /\ FairConverge

-----------------------------------------------------------------------------
(* Claims about the storage backends (Spec, SpecFiles)                     *)
(* A call "met no store fault" when none of its list/fetch/del/put calls   *)
(* failed; what the backends do under such faults is the subject of the    *)
(* error-handling claims.                                                  *)

\* what the next getSharedCode() / getSharedFiles() answers
ReadableCode == DoGetSharedCode("none")
ReadableFiles == DoGetSharedFiles("none")

\* C4: updateSharedCode on an existing document d with partial p returns, and
\* leaves readable, a document with d's id whose content is p.content if present
\* else d.content and whose language is p.language if present else d.language,
\* in MemStorage and in BlobStorage.
C4_UpdateMerges ==
    (last.op = "updateSharedCode" /\ last.pre # None /\ ~last.threw /\ last.rf = "none") =>
        LET d == The(last.pre)
            wantContent == IF last.p.content = None THEN d.content ELSE The(last.p.content)
            wantLanguage == IF last.p.language = None THEN d.language ELSE The(last.p.language)
        IN  /\ last.ret # None
            /\ The(last.ret).content = wantContent
            /\ The(last.ret).language = wantLanguage
            /\ The(last.ret).id = d.id
            /\ Cardinality(ReadableCode) = 1
            /\ The(ReadableCode).content = wantContent
            /\ The(ReadableCode).language = wantLanguage
            /\ The(ReadableCode).id = d.id

\* C4 happens: BlobStorage updated a document with content "a" to the empty
\* content alone and kept its language
C4_Witness ==
    /\ backend = "blob" /\ last.op = "updateSharedCode" /\ last.pre # None
    /\ ~last.threw /\ last.rf = "none"
    /\ The(last.pre).content = "a" /\ The(last.pre).language = "python"
    /\ last.p = [content |-> Some(""), language |-> None]
    /\ The(ReadableCode).content = "" /\ The(ReadableCode).language = "python"

\* C5: updateSharedCode(p) with no document stored creates one whose content is
\* p.content when provided and "" when omitted, and whose language is p.language
\* when provided and "text" when omitted, for every partial p, empty strings
\* included; getSharedCode then returns that document.
C5_CreateUsesProvided ==
    (last.op = "updateSharedCode" /\ last.pre = None /\ ~last.threw) =>
        LET wantContent == IF last.p.content = None THEN "" ELSE The(last.p.content)
            wantLanguage == IF last.p.language = None THEN "text" ELSE The(last.p.language)
        IN  /\ last.ret # None
            /\ The(last.ret).content = wantContent
            /\ The(last.ret).language = wantLanguage
            /\ Cardinality(ReadableCode) = 1
            /\ The(ReadableCode).content = wantContent
            /\ The(ReadableCode).language = wantLanguage

\* C6: of two successive successful updateSharedCode calls on one backend, the
\* second leaves an updatedAt strictly greater than the first, however close
\* together the calls are.
C6_UpdatedAtStrictlyIncreases ==
    (last.op = "updateSharedCode" /\ ~last.threw /\ last.prevUpd # None) =>
        GetTime(The(last.ret).updatedAt) > The(last.prevUpd)

\* the documents the active backend holds: the sharedCodeData slot, or the
\* objects under the shared-code.json key
DocumentsHeld == IF backend = "mem" THEN sharedCodeData ELSE blobCode

\* C7: in every reachable state the active backend holds at most one
\* SharedDocument.
C7_Singleton == Cardinality(DocumentsHeld) <= 1

\* C7 happens: a document was stored while one was already there
C7_Witness ==
    /\ backend = "blob"
    /\ last.op \in {"createSharedCode", "updateSharedCode", "PUT /api/code"}
    /\ last.pre # None /\ ~last.threw
    /\ Cardinality(DocumentsHeld) = 1

\* the document as a response carries it (res.json)
AsJSON(code) == IF backend = "mem" THEN {JSONCode(d) : d \in code} ELSE code

\* C18: GET /api/code never answers with an absent document: with no document
\* stored it creates one with content "" and language "text" and returns it,
\* with one stored it returns that one and leaves it as it is, so GETs with no
\* write in between answer the same id, content, language and updatedAt.
C18_LazyCreation ==
    (last.op = "GET /api/code" /\ last.rf = "none" /\ last.wf = "none") =>
        /\ last.status = 200 /\ last.ret # None
        /\ last.ret = AsJSON(HeldCode)
        /\ last.pre = None =>
              The(last.ret).content = "" /\ The(last.ret).language = "text"
        /\ last.pre # None => HeldCode = last.pre
        /\ last.prevGot # None => last.ret = last.prevGot

\* C18 happens: a second GET answered the document the first GET had created
C18_Witness ==
    /\ last.op = "GET /api/code" /\ last.rf = "none" /\ last.wf = "none"
    /\ last.prevGot # None /\ last.ret = last.prevGot
    /\ The(last.ret).content = "" /\ The(last.ret).language = "text"

\* C19: PUT /api/code with a body that fails validation answers 400 and leaves
\* the stored document unchanged; with a valid body it answers the updated
\* document when the storage update succeeds and 500 when it fails.
C19_PutStatus ==
    last.op = "PUT /api/code" =>
        IF last.p.content = Some(NotAString) \/ last.p.language = Some(NotAString)
        THEN last.status = 400 /\ HeldCode = last.pre
        ELSE IF last.threw
        THEN last.status = 500
        ELSE /\ last.status = 200
             /\ last.ret # None /\ last.ret = AsJSON(HeldCode)
             /\ last.p.content # None => The(last.ret).content = The(last.p.content)
             /\ last.p.language \notin {None, Some("")} =>
                   The(last.ret).language = The(last.p.language)

\* C19 happens: a body whose content is not a string was refused with 400 while
\* a document was stored
C19_Witness ==
    /\ last.op = "PUT /api/code" /\ last.p.content = Some(NotAString)
    /\ last.status = 400 /\ last.pre # None /\ HeldCode = last.pre

-----------------------------------------------------------------------------
(* Claims about the file catalog (SpecFiles) *)

Entries(m) == {m[i] : i \in 1..Len(m)}

\* C8: no two FileRecords of the catalog have the same id, each is stored under
\* the key equal to its id, and no operation changes a record already there.
C8_IdsUniqueImmutable ==
    /\ \A i, j \in 1..Len(HeldFiles) :
          HeldFiles[i].value.id = HeldFiles[j].value.id => i = j
    /\ \A e \in Entries(HeldFiles) : e.key = e.value.id
    /\ last.op \in {"createSharedFile", "deleteSharedFile", "getSharedFiles"} =>
          \A e \in Entries(HeldFiles), q \in Entries(last.preFiles) :
              (e.key = q.key \/ e.value.id = q.value.id) => e = q

\* C8 happens: a record was created in a catalog that already held one
C8_Witness ==
    /\ last.op = "createSharedFile" /\ ~last.threw
    /\ Len(last.preFiles) >= 1 /\ Len(HeldFiles) = Len(last.preFiles) + 1

\* C9: after createSharedFile(data) returns r, the next getSharedFiles holds
\* exactly one record with r.id, with the filename, objectPath and fileSize of
\* data, in MemStorage and in BlobStorage.
C9_CreateThenGet ==
    (last.op = "createSharedFile" /\ ~last.threw) =>
        LET r == The(last.ret)
            hits == {i \in 1..Len(ReadableFiles) : ReadableFiles[i].id = r.id}
        IN  /\ last.ret # None
            /\ Cardinality(hits) = 1
            /\ \A i \in hits :
                  /\ ReadableFiles[i].filename = last.data.filename
                  /\ ReadableFiles[i].objectPath = last.data.objectPath
                  /\ ReadableFiles[i].fileSize = last.data.fileSize

\* C9 happens: BlobStorage created a record in a catalog that held one
C9_Witness ==
    /\ backend = "blob" /\ last.op = "createSharedFile" /\ ~last.threw
    /\ Len(last.preFiles) = 1 /\ Len(ReadableFiles) = 2

\* C10: deleteSharedFile(id) of an id in the catalog returns true, no later
\* getSharedFiles holds that id and all other records remain; of an id not in the
\* catalog, MemStorage returns false and leaves the catalog unchanged, and
\* BlobStorage returns true.
C10_Delete ==
    /\ \A i \in 1..Len(ReadableFiles) : ReadableFiles[i].id \notin last.gone
    /\ (last.op = "deleteSharedFile" /\ ~last.threw /\ last.rf = "none") =>
          IF \E q \in Entries(last.preFiles) : q.key = last.id
          THEN /\ last.ok
               /\ HeldFiles = SelectSeq(last.preFiles, LAMBDA q : q.key # last.id)
          ELSE IF backend = "mem"
               THEN ~last.ok /\ HeldFiles = last.preFiles
               ELSE last.ok

\* C10 happens: one of two records was deleted, the other remains
C10_Witness ==
    /\ last.op = "deleteSharedFile" /\ ~last.threw /\ last.rf = "none"
    /\ Len(last.preFiles) = 2 /\ Len(HeldFiles) = 1 /\ last.ok

-----------------------------------------------------------------------------
(* Claims about the client (SpecSync). ev is cleared when the clock moves, *)
(* so while ev names an event, clock is the time at which it happened.     *)

\* C1: a server document delivered less than 2000 ms after the client's last
\* keystroke never changes the client's content or language, whatever its
\* updatedAt.
C1_GraceWindow ==
    (/\ ev.kind = "pull"
     /\ lastKey[ev.client] # None
     /\ clock - The(lastKey[ev.client]) < GraceMs) =>
        /\ content[ev.client] = ev.oldContent
        /\ language[ev.client] = ev.oldLanguage

\* C1 happens: a document newer than the last keystroke, with another content,
\* arrived within the window and was discarded
C1_Witness ==
    /\ ev.kind = "pull"
    /\ lastKey[ev.client] # None
    /\ clock - The(lastKey[ev.client]) < GraceMs
    /\ GetTime(The(sharedCode[ev.client]).updatedAt) > The(lastKey[ev.client])
    /\ The(sharedCode[ev.client]).content # content[ev.client]

C3_DebouncedPush ==
    /\ (ev.kind # "none" /\ InFlight(ev.client) > ev.inFlight) => ev.kind = "fire"
    /\ ev.kind = "fire" =>
          /\ clock - lastChange[ev.client] >= DebounceMs
          /\ InFlight(ev.client) = ev.inFlight + 1
          /\ puts[ev.client][InFlight(ev.client)] =
                [content |-> content[ev.client], language |-> language[ev.client]]
    /\ ev.kind \in {"type", "select", "pull"} =>
          timer[ev.client] = Some(clock + DebounceMs)

\* C3 happens: the timer fired 1000 ms after a keystroke and pushed
C3_Witness ==
    /\ ev.kind = "fire"
    /\ lastKey[ev.client] # None
    /\ clock - The(lastKey[ev.client]) = DebounceMs
    /\ puts[ev.client] = <<[content |-> "a", language |-> "python"]>>

-----------------------------------------------------------------------------
(* Claims about the routes on files (SpecFiles) *)

\* the request's storage calls met no store fault
NoStoreFault == last.rf = "none" /\ last.rf2 = "none" /\ last.wf = "none"

\* C11: DELETE /api/files/:id answers 404 whenever no record with that id is in
\* the catalog, and answers the success message only when a record with that id
\* was there and has been removed, whichever backend is active.
C11_DeleteStatus ==
    (last.op = "DELETE /api/files/:id" /\ NoStoreFault /\ last.bf = "none") =>
        /\ ~MapHas(last.preFiles, last.id) => last.status = 404
        /\ last.status = 200 =>
              MapHas(last.preFiles, last.id) /\ ~MapHas(HeldFiles, last.id)

\* C12: DELETE /api/files/:id of a record in the catalog, when deleting the
\* bytes throws or no token is configured, still removes the record and answers
\* success: the byte deletion alone never gives a 500 nor keeps the record.
C12_BestEffortCleanup ==
    (/\ last.op = "DELETE /api/files/:id" /\ NoStoreFault
     /\ MapHas(last.preFiles, last.id)
     /\ (last.bf = "del" \/ ~token)) =>
        /\ last.status = 200
        /\ ~MapHas(HeldFiles, last.id)

\* C12 happens: the bytes' deletion failed, the record is gone, the answer is 200
C12_Witness ==
    /\ last.op = "DELETE /api/files/:id" /\ NoStoreFault
    /\ MapHas(last.preFiles, last.id)
    /\ token /\ last.bf = "del"
    /\ last.status = 200 /\ ~MapHas(HeldFiles, last.id)
    /\ blobBytes = last.preBytes /\ blobBytes # {}

\* the records of the catalog whose objectPath equals the fragment, ends with
\* it, or equals "/objects/" + fragment
Resolving(catalog, fragment) ==
    {q.value : q \in {e \in Entries(catalog) :
        \/ e.value.objectPath = fragment
        \/ EndsWith(e.value.objectPath, fragment)
        \/ e.value.objectPath = "/objects/" \o fragment}}

-----------------------------------------------------------------------------
(* Claims about BlobStorage's reads and writes (SpecBlob) *)

ReadOps == {"getSharedCode", "getSharedFiles", "getUser", "getUserByUsername"}

\* the read found nothing it could return: no token, no object under the key,
\* or a list, fetch or parse that failed
ReadDefaults(objs) == ~token \/ objs = {} \/ last.rf # "none"

\* C13: readBlobJSON never raises: it returns the default when the token is
\* absent, when nothing is listed, when the fetch is not ok and when list,
\* fetch or parse throws, and the parsed content of the listed object
\* otherwise; so getSharedCode, getSharedFiles, getUser and getUserByUsername
\* never reject.
C13_ReadsNeverFail ==
    /\ last.op \in ReadOps => ~last.threw
    /\ last.op = "getSharedCode" =>
          last.ret = IF ReadDefaults(blobCode) THEN None ELSE HeldCode
    /\ last.op = "getSharedFiles" =>
          last.files = IF ReadDefaults(blobFiles) THEN <<>> ELSE MapValues(HeldFiles)
    /\ last.op = "getUser" =>
          last.retUser = IF ReadDefaults(blobUsers) THEN None
                         ELSE MapGet(HeldUsers, last.id)
    /\ last.op = "getUserByUsername" =>
          last.retUser = IF ReadDefaults(blobUsers) THEN None
                         ELSE FirstOf(MapValues(HeldUsers),
                                      {i \in 1..Len(HeldUsers) :
                                          HeldUsers[i].value.username = last.name})

\* C13 happens: the document is stored, parsing its object threw, and
\* getSharedCode returned absent without rejecting
C13_Witness ==
    /\ last.op = "getSharedCode" /\ token /\ last.rf = "parse"
    /\ blobCode # {} /\ last.ret = None /\ ~last.threw

WriteOps == {"updateSharedCode", "createSharedCode", "createSharedFile",
             "deleteSharedFile", "createUser"}

\* the store call named by last.wf was made and failed: del is only called
\* when the list found an object
WriteFailed(hadObject) ==
    \/ last.wf \in {"list", "put"}
    \/ last.wf = "del" /\ hadObject

\* the value a write operation returned is what the store now holds
Completed ==
    /\ last.op \in {"updateSharedCode", "createSharedCode"} =>
          last.ret # None /\ HeldCode = Some(JSONCode(The(last.ret)))
    /\ last.op = "createSharedFile" =>
          /\ last.ret # None
          /\ MapGet(HeldFiles, The(last.ret).id) = Some(JSONFile(The(last.ret)))
    /\ last.op = "deleteSharedFile" => last.ok /\ ~MapHas(HeldFiles, last.id)
    /\ last.op = "createUser" =>
          last.retUser # None /\ MapGet(HeldUsers, The(last.retUser).id) = last.retUser

\* C14: with a token, writeBlobJSON lists the key, deletes what it found and
\* only then puts the content under the fixed key; when the list, the delete or
\* the put fails the operation rejects, so updateSharedCode, createSharedCode,
\* createSharedFile, deleteSharedFile and createUser report success only for a
\* write that completed.
C14_WritePath ==
    (token /\ last.op \in WriteOps) =>
        LET now == ObjectsOf(last.op)
        IN  /\ last.threw <=> WriteFailed(last.preObjs # {})
            /\ ~last.threw =>
                  /\ Completed
                  /\ \A o \in now : o.pathname = Pathname(KeyOf(last.op), 0)
                  /\ Cardinality(now) = 1
            /\ last.threw => last.ret = None /\ last.retUser = None /\ ~last.ok
            /\ (last.threw /\ last.wf = "put") => now = {}
            /\ (last.threw /\ last.wf \in {"list", "del"}) => now = last.preObjs

\* C14 happens: the put failed after the listed object had been deleted, and
\* the operation rejected
C14_Witness ==
    /\ token /\ last.op = "updateSharedCode" /\ last.wf = "put"
    /\ last.preObjs # {} /\ blobCode = {} /\ last.threw

\* what a BlobStorage without a token answers: no write rejects, every read
\* returns its default
NoTokenAnswers ==
    /\ last.op \in WriteOps => ~last.threw
    /\ last.op \in {"updateSharedCode", "createSharedCode"} => last.ret # None
    /\ last.op = "createSharedFile" => last.ret # None
    /\ last.op = "deleteSharedFile" => last.ok
    /\ last.op = "createUser" => last.retUser # None
    /\ last.op = "getSharedCode" => last.ret = None
    /\ last.op = "getSharedFiles" => last.files = <<>>
    /\ last.op \in {"getUser", "getUserByUsername"} => last.retUser = None
    /\ last.op \in ReadOps => ~last.threw

\* C15: while the token is absent, every BlobStorage write operation returns
\* without error and leaves the object store as it was, and every read returns
\* its default (absent document, empty catalog, no user), whatever the store
\* holds.
C15_NoToken ==
    /\ [](~token => NoTokenAnswers)
    /\ [][~token => UNCHANGED <<blobCode, blobFiles, blobUsers>>]_vars

\* C15 happens: without a token, updateSharedCode returned a document although
\* the store holds another one, which is still there
C15_Witness ==
    /\ ~token /\ last.op = "updateSharedCode" /\ ~last.threw
    /\ last.ret # None /\ blobCode # {} /\ blobCode = last.preObjs
    /\ HeldCode # Some(JSONCode(The(last.ret)))

-----------------------------------------------------------------------------
(* Claims about users (SpecUsers) *)

\* C20: createUser gives the new user an id no stored user has and fails when
\* a stored user has the same username, so no two stored users share a
\* username and getUserByUsername has at most one candidate, in either backend.
C20_UsernameUnique ==
    /\ \A i, j \in 1..Len(HeldUsers) :
          HeldUsers[i].value.id = HeldUsers[j].value.id => i = j
    /\ \A i, j \in 1..Len(HeldUsers) :
          HeldUsers[i].value.username = HeldUsers[j].value.username => i = j
    /\ (last.op = "createUser"
            /\ \E e \in Entries(last.preUsers) :
                  e.value.username = last.insertUser.username) =>
          last.threw

-----------------------------------------------------------------------------
(* Claims about concurrent calls on BlobStorage (SpecRace) *)

\* the content and language updateSharedCode(data) must write, given the
\* document it read
MergedContent(existing, data) ==
    IF data.content # None THEN The(data.content)
    ELSE IF existing # None THEN The(existing).content ELSE ""
MergedLanguage(existing, data) ==
    IF data.language # None THEN The(data.language)
    ELSE IF existing # None THEN The(existing).language ELSE "text"

Returned(p) == procs[p].pc = "done" /\ ~procs[p].threw

\* the documents the store can hold: the one it started with and the ones the
\* calls that have put wrote
Written == {Some(PriorCode)} \cup
           {Some(JSONCode(The(procs[w].ret))) : w \in {v \in Writers : Returned(v)}}

\* C16: the update path of BlobStorage is not atomic. Each updateSharedCode
\* writes, whole, the document it merged from what it read, so of two
\* concurrent calls that both read the same document the store keeps one
\* caller's change only; and shared-code.json is empty only between a
\* writer's del and its put, where a concurrent getSharedCode reads absent.
C16_NonAtomic ==
    /\ \A w \in Writers : procs[w].updated # None =>
          /\ The(procs[w].updated).content = MergedContent(procs[w].existing, RaceData[w])
          /\ The(procs[w].updated).language = MergedLanguage(procs[w].existing, RaceData[w])
    /\ HeldCode # None => HeldCode \in Written
    /\ HeldCode = None => \E w \in Writers : procs[w].pc = "put"
    /\ \A r \in Readers : procs[r].ret # None => procs[r].ret \in Written
    /\ ((\A w \in Writers : Returned(w) /\ procs[w].existing = Some(PriorCode))
            /\ HeldCode # None) =>
          ~(The(HeldCode).content = "b" /\ The(HeldCode).language = "text")

\* C16 happens: both updates read the stored document and both returned, the
\* store holds the content change without the language change, and the
\* getSharedCode that ran meanwhile returned absent
C16_Witness ==
    /\ \A w \in Writers : Returned(w) /\ procs[w].existing = Some(PriorCode)
    /\ HeldCode # None
    /\ The(HeldCode).content = "b" /\ The(HeldCode).language = "python"
    /\ procs["r1"].pc = "done" /\ procs["r1"].ret = None

-----------------------------------------------------------------------------
(* Claims about the two backends side by side (SpecBoth) *)

\* what a caller observes of a document and of a file record, generated ids
\* and timestamps aside
SeenCode(o) ==
    IF o = None THEN None ELSE Some([content |-> The(o).content, language |-> The(o).language])
SeenFile(f) == [filename |-> f.filename, objectPath |-> f.objectPath, fileSize |-> f.fileSize]
SeenFiles(fs) == [i \in 1..Len(fs) |-> SeenFile(fs[i])]

\* the two backends agree on what the document calls and the catalog reads and
\* creations return
AgreeOnAllButDelete ==
    /\ last.op \in {"getSharedCode", "updateSharedCode", "createSharedCode"}
          => SeenCode(last.ret) = SeenCode(last.memRet)
    /\ last.op = "getSharedFiles" => SeenFiles(last.files) = SeenFiles(last.memFiles)
    /\ last.op = "createSharedFile"
          => SeenFile(The(last.ret)) = SeenFile(The(last.memRet))

\* C21: given the same sequence of calls, with a token and no store fault,
\* MemStorage and BlobStorage return the same observable results at every step:
\* the same presence, content, language, filename, objectPath and fileSize, and
\* the same booleans.
C21_BackendEquivalence ==
    /\ AgreeOnAllButDelete
    /\ last.op = "deleteSharedFile" => last.ok = last.memOk

-----------------------------------------------------------------------------
(* Claims about the browser's requests in flight (SpecPush) *)

\* C22: a browser has at most one PUT /api/code in flight: the debounce timer
\* never issues a PUT while an earlier PUT of the same browser is unanswered.
C22_OnePushInFlight ==
    /\ \A c \in Clients : InFlight(c) <= 1
    /\ ev.kind = "fire" => ev.inFlight = 0

-----------------------------------------------------------------------------
(* Claims about readBlobJSON and writeBlobJSON (SpecJSON) *)

\* a readBlobJSON that met no fault, right after a writeBlobJSON of its key
ReadAfterWrite == last.op = "readBlobJSON" /\ last.follows /\ last.rf = "none"

\* what a readBlobJSON without fault returns from the objects objs
ReadOf(objs, key) == ReadBlobJSON(objs, key, DefaultOf(key), "none")

\* C23: with a token, after writeBlobJSON(key, d) has succeeded without a store
\* fault, the next readBlobJSON(key, default) returns d as JSON holds it (a Date
\* as its ISO string), also when an older object was under the key.
C23_RoundTrip ==
    ReadAfterWrite /\ token /\ ~last.threw /\ last.wf = "none"
        => The(last.readBack) = JSONStringify(last.key, The(last.wrote))

\* a round trip over an older object that held another value
C23_Witness ==
    /\ ReadAfterWrite /\ token /\ ~last.threw /\ last.wf = "none"
    /\ last.preObjs # {}
    /\ The(last.readBack) # ReadOf(last.preObjs, last.key)
    /\ The(last.readBack) # DefaultOf(last.key)

\* C28: a writeBlobJSON(key, d) that raises leaves the value under key as it
\* was: the next readBlobJSON(key, default) returns what was stored before.
C28_FailedWriteKeepsValue ==
    ReadAfterWrite /\ last.threw
        => The(last.readBack) = ReadOf(last.preObjs, last.key)

-----------------------------------------------------------------------------
(* Claims about the browser's upload (SpecUpload) *)

\* the upload has had its bytes stored and holds the reference the store returned
BytesUploaded(p) ==
    /\ procs[p].ret # None
    /\ The(procs[p].ret) \in blobBytes
    /\ procs[p].uploadURL = The(procs[p].ret)

\* the records of the catalog, in no order
RecordsHeld == {HeldFiles[i].value : i \in 1..Len(HeldFiles)}

\* C24: in handleFileUpload, POST /api/files is sent only after the byte upload
\* has succeeded, with fileURL the reference the store returned; an upload whose
\* config request or byte upload fails creates no FileRecord; the record created
\* has that fileURL as its objectPath.
C24_UploadOrdering ==
    /\ [](last.op = "POST /api/files" => \A p \in Uploaders : BytesUploaded(p))
    /\ [](last.op = "POST /api/files" /\ last.status = 200
            => \A p \in Uploaders :
                  /\ The(last.ret).objectPath = procs[p].uploadURL
                  /\ \E f \in RecordsHeld :
                        f.id = The(last.ret).id /\ f.objectPath = procs[p].uploadURL)
    /\ [][\A p \in Uploaders :
            /\ procs'[p].pc = "failed" /\ procs'[p].ret = None => RecordsHeld' = RecordsHeld
            /\ RecordsHeld' # RecordsHeld
                  => procs[p].pc = "save" /\ BytesUploaded(p) /\ last'.op = "POST /api/files"
       ]_vars

\* an upload that went through: the bytes stored, then the record created with
\* their reference as its objectPath
C24_Witness ==
    /\ last.op = "POST /api/files" /\ last.status = 200
    /\ \A p \in Uploaders : procs[p].pc = "done" /\ BytesUploaded(p)
    /\ \E f \in RecordsHeld : f.objectPath \in blobBytes

-----------------------------------------------------------------------------
(* Claims about the server-mediated upload (SpecRoutes) *)

\* C25: POST /api/files/upload answers 400 when filename or file is missing, and
\* 200 with the uploadURL of the stored bytes otherwise, with or without a token.
C25_ServerUpload ==
    last.op = "POST /api/files/upload"
        => IF last.name = "" \/ last.file = ""
           THEN last.status = 400
           ELSE last.status = 200 /\ last.served # None

-----------------------------------------------------------------------------
(* Claims about users over time (SpecUsers); last.made holds the users that *)
(* createUser has returned so far                                          *)

\* C26: once createUser has returned u, every later getUser(u.id) and
\* getUserByUsername(u.username) that meets no store fault returns u.
C26_UsersPersist ==
    \A u \in last.made :
        /\ last.op = "getUser" /\ last.rf = "none" /\ last.id = u.id
              => last.retUser = Some(u)
        /\ last.op = "getUserByUsername" /\ last.rf = "none" /\ last.name = u.username
              => last.retUser = Some(u)

-----------------------------------------------------------------------------
(* Claims about GET /api/code on a stored document (Spec) *)

\* C27: once a document is stored, GET /api/code leaves its content and its
\* language as they were, in both backends, also when the BlobStorage read of
\* the document fails.
C27_GetIsReadOnly ==
    last.op = "GET /api/code" /\ last.pre # None
        => /\ HeldCode # None
           /\ The(HeldCode).content = The(last.pre).content
           /\ The(HeldCode).language = The(last.pre).language

-----------------------------------------------------------------------------
(* Claims about the other records of the catalog (SpecFiles) *)

\* C29: after a BlobStorage createSharedFile or deleteSharedFile(id) that
\* succeeded, every record the catalog held before the call, the deleted id
\* aside, is still there with the same fields, also when the read of the
\* catalog inside the call failed.
C29_OtherRecordsKept ==
    (backend = "blob" /\ token /\ ~last.threw
        /\ last.op \in {"createSharedFile", "deleteSharedFile"})
        => \A i \in 1..Len(last.preFiles) :
              (last.op = "deleteSharedFile" /\ last.preFiles[i].key = last.id)
              \/ MapGet(HeldFiles, last.preFiles[i].key) = Some(last.preFiles[i].value)

-----------------------------------------------------------------------------
(* Claims about concurrent calls on the file catalog (SpecFileRace) *)

\* both calls have returned normally
BothReturned == \A p \in Writers : procs[p].pc = "done" /\ ~procs[p].threw

\* the catalog shows what call p did: the record it created is there as it
\* was returned, or the id it deleted is gone
EffectHeld(p) ==
    IF procs[p].call = "createSharedFile"
    THEN procs[p].ret # None
         /\ MapGet(HeldFiles, FileKey(The(procs[p].ret)))
                = Some(IF backend = "mem" THEN The(procs[p].ret)
                       ELSE JSONFile(The(procs[p].ret)))
    ELSE MapGet(HeldFiles, FileKey(FileRacePrior)) = None

\* C30 as stated: whenever two concurrent calls on the file catalog have both
\* returned normally, the catalog shows what each of them did, in MemStorage
\* and in BlobStorage.
C30_NoLostFileRecord == BothReturned => \A p \in Writers : EffectHeld(p)

\* C30, amended: in MemStorage the catalog shows what each of the two calls
\* did. In BlobStorage the catalog is the one that one of the two calls wrote:
\* it shows what that call did, and may have lost what the other did.
C30_MemKeepsBoth ==
    BothReturned =>
        IF backend = "mem" THEN \A p \in Writers : EffectHeld(p)
        ELSE \E p \in Writers : HeldFiles = The(procs[p].updated) /\ EffectHeld(p)

\* both createSharedFile calls returned on BlobStorage and the catalog lacks
\* the record of one of them
C30_Witness ==
    /\ BothReturned
    /\ backend = "blob"
    /\ \A p \in Writers : procs[p].call = "createSharedFile"
    /\ \E p \in Writers : ~EffectHeld(p)

-----------------------------------------------------------------------------
(* Claims about concurrent PUT /api/code requests on MemStorage (SpecMemRace) *)

\* the document after the partial of request p is applied to code; a request
\* answered 400 applies nothing
AppliedTo(code, p) ==
    IF procs[p].data = None THEN code
    ELSE Some(MemUpdated(code, The(procs[p].data), 0))

\* content and language of a document that may be absent
Text(code) == IF code = None THEN None
              ELSE Some([id |-> The(code).id, content |-> The(code).content,
                         language |-> The(code).language])

AllAnswered == \A p \in Writers : procs[p].pc = "done"

\* request p changes only content and request q only language
DisjointFields(p, q) ==
    /\ procs[p].data # None /\ procs[q].data # None
    /\ The(procs[p].data).content # None /\ The(procs[p].data).language = None
    /\ The(procs[q].data).content = None /\ The(procs[q].data).language # None

\* C31: once the concurrent PUT /api/code requests on MemStorage are all
\* answered, the stored document has the id, content and language that
\* applying their partials one after another, in one order or the other, to
\* the document held before gives; when one changed only content and the
\* other only language of an existing document, both values are stored.
C31_MemUpdatesAtomic ==
    AllAnswered =>
        /\ \E p, q \in Writers :
              /\ p # q
              /\ Text(sharedCodeData) = Text(AppliedTo(AppliedTo(last.pre, p), q))
        /\ \A p, q \in Writers :
              DisjointFields(p, q) /\ last.pre # None =>
                  /\ The(sharedCodeData).content = The(The(procs[p].data).content)
                  /\ The(sharedCodeData).language = The(The(procs[q].data).language)

\* two overlapping requests on an existing document, one with content "a"
\* only and one with language "python" only, both answered 200
C31_Witness ==
    /\ AllAnswered
    /\ last.pre # None
    /\ DisjointFields("w1", "w2")
    /\ \A p \in Writers : procs[p].status = 200
    /\ procs["w1"].ret = procs["w2"].ret
    /\ The(sharedCodeData).content = "a"
    /\ The(sharedCodeData).language = "python"

-----------------------------------------------------------------------------
(* Claims about language changes, echo pushes and clocks (SpecSync, SpecSkew) *)

\* the user of browser c last edited through the language selector, at
\* lastChange[c]: no pull has overwritten the local state since, and no key
\* was typed at that time
LastEditWasSelect(c) ==
    /\ edits > 0
    /\ ~pulled[c]
    /\ lastKey[c] # Some(lastChange[c])

\* C32: a server document that a poll delivers less than 2000 ms after the
\* user picked a language in the selector overwrites neither the local
\* language nor the local content.
C32_SelectProtected ==
    [][\A c \in Clients :
          (ev'.kind = "pull" /\ ev'.client = c /\ LastEditWasSelect(c)
              /\ clock - lastChange[c] < GraceMs)
          => language'[c] = language[c] /\ content'[c] = content[c]]_vars

\* C33: a browser issues a PUT only when its debounce timer fires with a
\* fetched document from which its content or language differs; a browser
\* whose user has never edited issues none, and neither does one whose local
\* state a pull has overwritten, until its user edits again.
C33_NoEchoPush ==
    ev.kind = "fire" =>
        /\ sharedCode[ev.client] # None
        /\ \/ content[ev.client] # The(sharedCode[ev.client]).content
           \/ language[ev.client] # The(sharedCode[ev.client]).language
        /\ edits > 0
        /\ ~pulled[ev.client]

\* the timer fires after a pull has overwritten the local state with another
\* browser's document, and nothing is pushed
C33_Witness ==
    /\ ev.kind = "idle"
    /\ pulled[ev.client]
    /\ content[ev.client] = "b"
    /\ puts[ev.client] = <<>>

\* a poll delivers to browser c, whose user last typed more than 2000 ms
\* ago, a document with another browser's text that the server stamped after
\* that keystroke
NewerDelivered(c) ==
    /\ ev'.kind = "pull" /\ ev'.client = c
    /\ The(getResp[c]).content \in {b.content : b \in OtherBodies}
    /\ lastKey[c] # None
    /\ clock - The(lastKey[c]) > GraceMs
    /\ GetTime(The(getResp[c]).updatedAt) > The(lastKey[c])

\* browser c takes over the delivered document
Adopts(c) ==
    /\ content'[c] = The(getResp[c]).content
    /\ language'[c] = The(getResp[c]).language

-----------------------------------------------------------------------------
(* Claims about the download lookup and its errors (SpecLookup, SpecRoutes) *)

\* the records whose objectPath is the fragment, or "/objects/" + fragment
ExactMatches(requestedPath) ==
    {f \in {HeldFiles[i].value : i \in 1..Len(HeldFiles)} :
        \/ f.objectPath = requestedPath
        \/ f.objectPath = "/objects/" \o requestedPath}

\* C36: when a record of the catalog has an objectPath equal to the requested
\* fragment, or to "/objects/" + fragment, GET /objects/<fragment> serves no
\* bytes but those of such a record: never those of a record whose objectPath
\* merely ends with the fragment.
C36_ExactMatchWins ==
    (last.op = "GET /objects" /\ ExactMatches(last.path) # {})
        => last.served \subseteq {f.objectPath : f \in ExactMatches(last.path)}

\* the record files.find returns for the fragment
Found(requestedPath) ==
    LET files == MapValues(HeldFiles)
    IN  FirstOf(files, {i \in 1..Len(files) : Matches(files[i], requestedPath)})

\* the fetch of the found record's bytes was answered, and not ok: the url
\* is one the store holds no bytes under
BytesMissing ==
    /\ last.op = "GET /objects"
    /\ last.rf = "none"
    /\ Found(last.path) # None
    /\ last.df = "none"
    /\ StartsWith(The(Found(last.path)).objectPath, "https://")
    /\ The(Found(last.path)).objectPath \notin blobBytes

\* C38: when GET /objects/<fragment> finds a record and the fetch of its
\* bytes is answered not ok, the response is 404.
C38_MissingBytes404 == BytesMissing => last.status = 404

\* C37: a DELETE /api/files/:id of a record in the catalog that answers 500
\* leaves the record in the catalog and its bytes in the store; a request
\* deletes bytes only when its catalog deletion succeeds.
C37_NoDanglingRecord ==
    (last.op = "DELETE /api/files/:id" /\ MapHas(last.preFiles, last.id)) =>
        /\ last.status = 500 =>
              /\ MapGet(HeldFiles, last.id) = MapGet(last.preFiles, last.id)
              /\ blobBytes = last.preBytes
        /\ blobBytes # last.preBytes => last.status = 200

-----------------------------------------------------------------------------
(* Claims about convergence (SpecConverge) *)

\* every browser shows the server's document and has no PUT under way
Converged ==
    /\ sharedCodeData # None
    /\ \A c \in Browsers :
          /\ content[c] = The(sharedCodeData).content
          /\ language[c] = The(sharedCodeData).language
          /\ puts[c] = <<>>

\* C34: two browsers on MemStorage, clocks in step, every request answered,
\* timers and polls running on: once the users have stopped editing, the
\* browsers come to show the server's document for good, and no PUT is
\* issued any more.
C34_Convergence == <>[](Converged /\ ev.kind # "fire")

\* both users have typed, each their own text, and the browsers have
\* converged on one of the two
C34_Witness ==
    /\ Converged
    /\ \A c \in Browsers : lastKey[c] # None
    /\ The(sharedCodeData).content \in {"a", "b"}
    /\ clock = EndTime

====
